---- MODULE Spec2Model ----
(***************************************************************************)
(* A model of the px0 rules core: the 10x9 board (chess/board.cc), the     *)
(* Position and PositionHistory classes (chess/position.cc) and the        *)
(* adjudication of repeated positions.                                     *)
(*                                                                         *)
(* A BitBoard is modelled as the set of the squares whose bit is set, a    *)
(* Square as its index 0..89 (rank * 9 + file), a Move as the 16-bit       *)
(* value (from << 7) | to, a chase bitmap as the set of the ids whose bit  *)
(* is set.                                                                 *)
(***************************************************************************)
EXTENDS Integers, Sequences, FiniteSets, TLC

VARIABLES
    positions,  \* PositionHistory::positions_
    moves,      \* the moves appended and not popped since Reset
    zone,       \* the squares the caller moves pieces between
    nAppend,    \* the number of Append calls since Reset
    nPop,       \* the number of Pop calls since Reset
    appendedTo, \* positions_ before the last call if it was Append, else <<>>
    undone,     \* positions_ before the Append that the last call, a Pop,
                \* took back at once, else <<>>
    fen,        \* the text handed to SetFromFen or Position::FromFen
    parsed,     \* what the last call that parsed fen did
    emitted,    \* what the last call that serialised a board returned
    magics,     \* the magic parameters, the attack tables and the last
                \* table lookup
    nn          \* the transform and the moves and network indices converted
                \* into one another

vars ==
    <<positions, moves, zone, nAppend, nPop, appendedTo, undone,
      fen, parsed, emitted, magics, nn>>

----------------------------------------------------------------------------
(* Bounds of the model.                                                    *)

\* The longest history (number of positions) explored by Spec.
MaxLen == 9

\* The longest history explored by SpecStreak (long forced lines).
MaxStreakLen == 26

\* The number of Pop calls explored by SpecPop.
MaxPops == 2

\* The longest history explored by SpecPop.
MaxPopLen == 6

----------------------------------------------------------------------------
(* Squares, files, ranks (chess/types.h).                                  *)

kFileNB == 9

kRankNB == 10

NumSquares == 90

Squares == 0 .. (NumSquares - 1)

FileOf(s) == s % kFileNB

RankOf(s) == s \div kFileNB

\* uint8_t arithmetic of File, Rank and Square.
U8(x) == x % 256

\* Square(File, Rank): idx_(rank.idx * kFileNB.idx + file.idx), a uint8_t.
MkSquare(f, r) == U8(r * kFileNB + f)

SquareIsValid(s) == FileOf(s) < kFileNB /\ RankOf(s) < kRankNB

\* Square::operator+ with directions = <<rank delta, file delta>>.
SquareAdd(s, d) == MkSquare(U8(FileOf(s) + d[2]), U8(RankOf(s) + d[1]))

SquareSub(s, d) == MkSquare(U8(FileOf(s) - d[2]), U8(RankOf(s) - d[1]))

\* Square::Flip: the rank r becomes 9 - r, the file stays.
SquareFlip(s) == U8(9 - RankOf(s)) * kFileNB + FileOf(s)

Abs(x) == IF x < 0 THEN -x ELSE x

Max(a, b) == IF a > b THEN a ELSE b

Distance(x, y) ==
    Max(Abs(RankOf(x) - RankOf(y)), Abs(FileOf(x) - FileOf(y)))

\* The character at place i (from 1) of the string s.
CharAt(s, i) == SubSeq(s, i, i)

HexDigits == "0123456789ABCDEF"

HexValue(c) == (CHOOSE d \in 1..16 : CharAt(HexDigits, d) = c) - 1

\* B(h, l): the 128-bit number (__uint128_t(h) << 64) ^ __uint128_t(l) as
\* the sequence of its sixteen bytes, the least significant first; h and l
\* are written as in the source without the 0x.
B(h, l) ==
    [k \in 1..16 |->
        LET w == IF k <= 8 THEN l ELSE h
            j == IF k <= 8 THEN k ELSE k - 8
        IN  HexValue(CharAt(w, 17 - 2 * j)) * 16
            + HexValue(CharAt(w, 18 - 2 * j))]

\* The 128-bit number n as the set of the places of its one bits.
Bits(n) == {i \in 0..127 : (n[(i \div 8) + 1] \div 2^(i % 8)) % 2 = 1}

\* v << k and v >> k on __uint128_t.
ShiftLeft(v, k) == {i + k : i \in {j \in v : j + k <= 127}}

ShiftRight(v, k) == {i - k : i \in {j \in v : j >= k}}

\* The masks of MirrorBoard.
MirrorSeq1 == Bits(B("0000000000000000", "00001FFFFFFFFFFF"))

MirrorSeq2 == Bits(B("00000000000000FF", "8000000007FC0000"))

MirrorSeq3 == Bits(B("0000000000000000", "7FFFE0000003FFFF"))

MirrorSeq4 == Bits(B("000000000001FF00", "003FE00FF80001FF"))

\* MirrorBoard with the within-half exchanges left out.
MirrorBoardHalves(v) ==
    ShiftLeft(v \cap MirrorSeq1, 45) \cup (ShiftRight(v, 45) \cap MirrorSeq1)

\* MirrorBoard(v): the halves of the board change places, then the ranks
\* within each half, the middle rank of each half staying.
MirrorBoard(v) ==
    LET v1 == ShiftLeft(v \cap MirrorSeq1, 45)
              \cup (ShiftRight(v, 45) \cap MirrorSeq1)
        fixed == v1 \cap MirrorSeq2
        v2 == ShiftLeft(v1 \cap MirrorSeq3, 27)
              \cup (ShiftRight(v1, 27) \cap MirrorSeq3)
        v3 == ShiftLeft(v2 \cap MirrorSeq4, 9)
              \cup (ShiftRight(v2, 9) \cap MirrorSeq4)
    IN  v3 \cup fixed

\* BitBoard::Mirror.
BBMirror(b) == MirrorBoard(b)

----------------------------------------------------------------------------
(* Moves (chess/types.h).                                                  *)

\* Move::White(from, to) == (from << 7) | to.
MoveWhite(from, to) == from * 128 + to

MoveFrom(m) == (m \div 128) % 128

MoveTo(m) == m % 128

----------------------------------------------------------------------------
(* Piece types and directions (chess/types.h, chess/board.cc).             *)

kRook == 0

kAdvisor == 1

kCannon == 2

kPawn == 3

kKnight == 4

kBishop == 5

kKing == 6

kKnightTo == 7

kPawnToOurs == 8

kPawnToTheirs == 9

NORTH == <<1, 0>>

EAST == <<0, 1>>

SOUTH == <<-1, 0>>

WEST == <<0, -1>>

NORTH_WEST == <<1, -1>>

NORTH_EAST == <<1, 1>>

SOUTH_WEST == <<-1, -1>>

SOUTH_EAST == <<-1, 1>>

kBishopDirections == {<<2, 2>>, <<-2, 2>>, <<2, -2>>, <<-2, -2>>}

kKnightDirections ==
    {<<-2, -1>>, <<-2, 1>>, <<2, -1>>, <<2, 1>>,
     <<1, -2>>, <<1, 2>>, <<-1, -2>>, <<-1, 2>>}

RankBB(r) == {s \in Squares : RankOf(s) = r}

FileBB(f) == {s \in Squares : FileOf(s) = f}

Palace ==
    {s \in Squares : FileOf(s) \in 3..5 /\ RankOf(s) \in (0..2) \cup (7..9)}

\* HalfBB[0] is ranks 0..4, HalfBB[1] is ranks 5..9.
HalfBB(i) ==
    IF i = 0 THEN {s \in Squares : RankOf(s) <= 4}
             ELSE {s \in Squares : RankOf(s) >= 5}

----------------------------------------------------------------------------
(* Attack generation (chess/board.cc).                                     *)

\* The squares the loop of SlidingAttack visits from s in direction d:
\* for (s = sq + d; s.IsValid() && Distance(s - d, s) == 1; s += d).
RECURSIVE RayFrom(_, _)
RayFrom(s, d) ==
    IF SquareIsValid(s) /\ Distance(SquareSub(s, d), s) = 1
    THEN <<s>> \o RayFrom(SquareAdd(s, d), d)
    ELSE <<>>

SlidingDirections == <<NORTH, SOUTH, WEST, EAST>>

Rays ==
    [s \in Squares |->
        [i \in 1..4 |->
            RayFrom(SquareAdd(s, SlidingDirections[i]), SlidingDirections[i])]]

\* The number of occupied squares the walk has met before reaching r[k].
HurdlesBefore(r, k, occupied) ==
    Cardinality({j \in 1..(k - 1) : r[j] \in occupied})

\* SlidingAttack<pt>: the rook attacks up to and including the first occupied
\* square, the cannon from behind the first occupied square (the hurdle) up to
\* and including the second.
SlidingAttack(pt, sq, occupied) ==
    UNION {
        LET r == Rays[sq][i]
        IN  {r[k] : k \in {k \in 1..Len(r) :
                HurdlesBefore(r, k, occupied) = (IF pt = kRook THEN 0 ELSE 1)}}
        : i \in 1..4}

LeaperDirections(pt) ==
    IF pt = kBishop THEN kBishopDirections ELSE kKnightDirections

\* LameLeaperPath<pt>(Direction d, Square s): the square that blocks the leap.
LameLeaperPathDir(pt, d, s) ==
    LET to == SquareAdd(s, d)
    IN  IF ~SquareIsValid(to) \/ Distance(s, to) >= 4
        THEN {}
        ELSE LET s1 == IF pt = kKnightTo THEN to ELSE s
                 to1 == IF pt = kKnightTo THEN s ELSE to
                 d1 == IF pt = kKnightTo THEN <<-d[1], -d[2]>> ELSE d
                 dr == <<IF d1[1] > 0 THEN 1 ELSE -1, 0>>
                 df == <<0, IF d1[2] > 0 THEN 1 ELSE -1>>
                 diff == Abs(FileOf(to1) - FileOf(s1))
                         - Abs(RankOf(to1) - RankOf(s1))
             IN  IF diff > 0 THEN {SquareAdd(s1, df)}
                 ELSE IF diff < 0 THEN {SquareAdd(s1, dr)}
                 ELSE {SquareAdd(SquareAdd(s1, df), dr)}

\* LameLeaperPath<pt>(Square s): every blocking square of s.
LameLeaperPath(pt, s) ==
    UNION {LameLeaperPathDir(pt, d, s) : d \in LeaperDirections(pt)}
    \cap (IF pt = kBishop THEN HalfBB(IF RankOf(s) > 4 THEN 1 ELSE 0)
          ELSE Squares)

\* LameLeaperAttack<pt>: the targets whose blocking square is empty.
LameLeaperAttack(pt, s, occupied) ==
    {SquareAdd(s, d) : d \in {d \in LeaperDirections(pt) :
        /\ SquareIsValid(SquareAdd(s, d))
        /\ Distance(s, SquareAdd(s, d)) < 4
        /\ LameLeaperPathDir(pt, d, s) \cap occupied = {}}}
    \cap (IF pt = kBishop THEN HalfBB(IF RankOf(s) > 4 THEN 1 ELSE 0)
          ELSE Squares)

\* Shift(Direction, BitBoard) for a one-square bitboard.
Shift(d, s) ==
    IF d = NORTH THEN (IF RankOf(s) < 9 THEN {s + 9} ELSE {})
    ELSE IF d = SOUTH THEN (IF RankOf(s) > 0 THEN {s - 9} ELSE {})
    ELSE IF d = EAST THEN (IF FileOf(s) < 8 THEN {s + 1} ELSE {})
    ELSE IF d = WEST THEN (IF FileOf(s) > 0 THEN {s - 1} ELSE {})
    ELSE {}

PawnAttacksBB(s) ==
    Shift(NORTH, s)
    \cup (IF RankOf(s) > 4 THEN Shift(WEST, s) \cup Shift(EAST, s) ELSE {})

\* PawnAttacksToBB<Pt>: where a pawn must stand to attack s.
PawnAttacksToBB(pt, s) ==
    LET ours == (pt = kPawnToOurs)
    IN  Shift(IF ours THEN NORTH ELSE SOUTH, s)
        \cup (IF (ours /\ RankOf(s) < 5) \/ (~ours /\ RankOf(s) > 4)
              THEN Shift(WEST, s) \cup Shift(EAST, s) ELSE {})

SafeDestination(s, step) ==
    LET to == SquareAdd(s, step)
    IN  IF SquareIsValid(to) /\ Distance(s, to) <= 2 THEN {to} ELSE {}

\* The relevant occupancy mask BuildAttacksTable gives a square.
Edges(sq) ==
    ((RankBB(0) \cup RankBB(9)) \ RankBB(RankOf(sq)))
    \cup ((FileBB(0) \cup FileBB(8)) \ FileBB(FileOf(sq)))

MagicMask(pt, sq) ==
    (IF pt = kRook \/ pt = kCannon THEN SlidingAttack(kRook, sq, {})
     ELSE LameLeaperPath(pt, sq))
    \ (IF pt = kKnightTo THEN {} ELSE Edges(sq))

MaskTable ==
    [pt \in {kRook, kCannon, kBishop, kKnight, kKnightTo} |->
        [sq \in Squares |-> MagicMask(pt, sq)]]

\* PseudoAttacks as InitializeMagicBitboards fills it.
PseudoAttacks ==
    [pt \in {kAdvisor, kPawn, kKing, kPawnToOurs, kPawnToTheirs} |->
        [sq \in Squares |->
            IF pt = kPawn THEN PawnAttacksBB(sq)
            ELSE IF pt = kPawnToOurs \/ pt = kPawnToTheirs
                 THEN PawnAttacksToBB(pt, sq)
            ELSE IF sq \notin Palace THEN {}
            ELSE IF pt = kKing
                 THEN UNION {SafeDestination(sq, d) :
                             d \in {NORTH, SOUTH, WEST, EAST}} \cap Palace
            ELSE UNION {SafeDestination(sq, d) :
                        d \in {NORTH_WEST, NORTH_EAST, SOUTH_WEST, SOUTH_EAST}}
                 \cap Palace]]

\* GetAttacks: the table entry of the occupancy cut to the relevant mask
\* (the entry BuildAttacksTable stored for that subset of the mask), or the
\* pseudo attacks for the types that have no table.
GetAttacks(pt, sq, pieces) ==
    LET Entry(occupied) ==
            IF pt = kRook \/ pt = kCannon
            THEN SlidingAttack(pt, sq, occupied)
            ELSE LameLeaperAttack(pt, sq, occupied)
    IN  IF pt \in {kRook, kCannon, kBishop, kKnight, kKnightTo}
        THEN Entry(pieces \cap MaskTable[pt][sq])
        ELSE PseudoAttacks[pt][sq]

----------------------------------------------------------------------------
(* ChessBoard (chess/board.h, chess/board.cc).  The board is seen from the *)
(* side to move: "our" pieces move up the board.                           *)

RECURSIVE SetToSeq(_)
\* The squares of a BitBoard in iteration order (lowest bit first).
SetToSeq(S) ==
    IF S = {} THEN <<>>
    ELSE LET m == CHOOSE x \in S : \A y \in S : x <= y
         IN  <<m>> \o SetToSeq(S \ {m})

Range(f) == {f[i] : i \in DOMAIN f}

\* A ChessBoard after Clear(): every field zero.
EmptyBoard ==
    [our_pieces |-> {}, their_pieces |-> {},
     rooks |-> {}, advisors |-> {}, cannons |-> {},
     pawns |-> {}, knights |-> {}, bishops |-> {},
     our_king |-> 0, their_king |-> 0, flipped |-> FALSE,
     id_board |-> [s \in Squares |-> 0]]

\* ChessBoard::PutPiece.
PutPiece(b, square, piece, is_theirs) ==
    [b EXCEPT
       !.our_pieces = IF is_theirs THEN @ ELSE @ \cup {square},
       !.their_pieces = IF is_theirs THEN @ \cup {square} ELSE @,
       !.rooks = IF piece = kRook THEN @ \cup {square} ELSE @,
       !.advisors = IF piece = kAdvisor THEN @ \cup {square} ELSE @,
       !.cannons = IF piece = kCannon THEN @ \cup {square} ELSE @,
       !.pawns = IF piece = kPawn THEN @ \cup {square} ELSE @,
       !.knights = IF piece = kKnight THEN @ \cup {square} ELSE @,
       !.bishops = IF piece = kBishop THEN @ \cup {square} ELSE @,
       !.our_king = IF piece = kKing /\ ~is_theirs THEN square ELSE @,
       !.their_king = IF piece = kKing /\ is_theirs THEN square ELSE @]

\* ChessBoard::Mirror.
Mirror(b) ==
    [b EXCEPT
       !.our_pieces = BBMirror(b.their_pieces),
       !.their_pieces = BBMirror(b.our_pieces),
       !.rooks = BBMirror(@), !.advisors = BBMirror(@),
       !.cannons = BBMirror(@), !.pawns = BBMirror(@),
       !.knights = BBMirror(@), !.bishops = BBMirror(@),
       !.our_king = SquareFlip(b.their_king),
       !.their_king = SquareFlip(b.our_king),
       !.flipped = ~b.flipped]

Occupied(b) == b.our_pieces \cup b.their_pieces

\* ChessBoard::kings().
Kings(b) == {b.our_king, b.their_king}

\* One piece-type bitboard through ApplyMove: ResetSquare(to) on a capture,
\* then SetIfSquare(from, to) and ResetSquare(from) unless the king moved.
MovePieceBB(bb, from, to, captured, king_move) ==
    LET c == IF captured THEN bb \ {to} ELSE bb
    IN  IF king_move THEN c
        ELSE IF from \in c THEN (c \cup {to}) \ {from} ELSE c

\* The ids moved between the squares as the mover sees them.
MoveIdAsSeen(id_board, flipped, from, to, king_move) ==
    IF king_move THEN id_board
    ELSE [id_board EXCEPT ![to] = id_board[from], ![from] = 0]

\* "Move id_board" of ApplyMove: nothing for a king move, else the id goes
\* from `from` to `to`, both turned to the unflipped orientation.
MoveId(id_board, flipped, from, to, king_move) ==
    LET idFrom == IF flipped THEN SquareFlip(from) ELSE from
        idTo == IF flipped THEN SquareFlip(to) ELSE to
    IN  IF king_move THEN id_board
        ELSE [id_board EXCEPT ![idTo] = id_board[idFrom], ![idFrom] = 0]

\* ChessBoard::ApplyMove: the board after the move, and whether the move
\* resets the no-progress counter.
ApplyMove(b, move) ==
    LET from == MoveFrom(move)
        to == MoveTo(move)
        reset_50_moves == to \in b.their_pieces
        king_move == (from = b.our_king)
    IN  [board |->
           [b EXCEPT
              !.our_pieces = (@ \ {from}) \cup {to},
              !.their_pieces = IF reset_50_moves THEN @ \ {to} ELSE @,
              !.rooks = MovePieceBB(@, from, to, reset_50_moves, king_move),
              !.advisors = MovePieceBB(@, from, to, reset_50_moves, king_move),
              !.cannons = MovePieceBB(@, from, to, reset_50_moves, king_move),
              !.pawns = MovePieceBB(@, from, to, reset_50_moves, king_move),
              !.knights = MovePieceBB(@, from, to, reset_50_moves, king_move),
              !.bishops = MovePieceBB(@, from, to, reset_50_moves, king_move),
              !.our_king = IF king_move THEN to ELSE @,
              !.id_board = MoveId(@, b.flipped, from, to, king_move)],
         zeroing |-> reset_50_moves]

\* The piece-type bitboard that an attack pattern is intersected with.
PiecesAttackingAs(b, pt) ==
    IF pt = kRook THEN b.rooks
    ELSE IF pt = kAdvisor THEN b.advisors
    ELSE IF pt = kCannon THEN b.cannons
    ELSE IF pt \in {kPawn, kPawnToOurs, kPawnToTheirs} THEN b.pawns
    ELSE IF pt \in {kKnight, kKnightTo} THEN b.knights
    ELSE IF pt = kBishop THEN b.bishops
    ELSE {}

\* ChessBoard::CheckersTo<our>: the enemy rooks, cannons, pawns and knights
\* that attack ksq under the given occupancy.
CheckersTo(b, ksq, occupied, our) ==
    UNION {GetAttacks(pt, ksq, occupied) \cap PiecesAttackingAs(b, pt) :
           pt \in {kRook, kCannon, kKnightTo,
                   IF our THEN kPawnToOurs ELSE kPawnToTheirs}}
    \cap (IF our THEN b.their_pieces ELSE b.our_pieces)

\* ChessBoard::IsUnderCheck.
IsUnderCheck(b) == CheckersTo(b, b.our_king, Occupied(b), TRUE) # {}

\* ChessBoard::RecapturesTo.
RecapturesTo(b, sq) ==
    LET occupied == Occupied(b)
    IN  ( (GetAttacks(kRook, sq, occupied) \cap b.rooks)
          \cup (GetAttacks(kAdvisor, sq, {}) \cap b.advisors)
          \cup (GetAttacks(kCannon, sq, occupied) \cap b.cannons)
          \cup (GetAttacks(kPawnToOurs, sq, {}) \cap b.pawns)
          \cup (GetAttacks(kKnightTo, sq, occupied) \cap b.knights)
          \cup (GetAttacks(kBishop, sq, occupied) \cap b.bishops)
          \cup (GetAttacks(kKing, sq, occupied) \cap {b.their_king}) )
        \cap b.their_pieces

\* IsLegalMove<our> without the test of the two kings facing each other.
IsLegalMoveIgnoringKings(b, move, our) ==
    LET occupied == (Occupied(b) \ {MoveFrom(move)}) \cup {MoveTo(move)}
        our_king == IF our THEN b.our_king ELSE b.their_king
        ksq == IF our_king = MoveFrom(move) THEN MoveTo(move) ELSE our_king
    IN  CheckersTo(b, ksq, occupied, our)
        \ (IF ksq # our_king THEN {} ELSE {MoveTo(move)}) = {}

\* IsLegalMove<our> that still counts a checker the move captures.
IsLegalMoveCountingCaptured(b, move, our) ==
    LET occupied == (Occupied(b) \ {MoveFrom(move)}) \cup {MoveTo(move)}
        our_king == IF our THEN b.our_king ELSE b.their_king
        their_king == IF our THEN b.their_king ELSE b.our_king
        ksq == IF our_king = MoveFrom(move) THEN MoveTo(move) ELSE our_king
    IN  IF their_king \in GetAttacks(kRook, ksq, occupied) THEN FALSE
        ELSE CheckersTo(b, ksq, occupied, our) = {}

\* ChessBoard::IsLegalMove<our>.
IsLegalMove(b, move, our) ==
    LET occupied == (Occupied(b) \ {MoveFrom(move)}) \cup {MoveTo(move)}
        our_king == IF our THEN b.our_king ELSE b.their_king
        their_king == IF our THEN b.their_king ELSE b.our_king
        ksq == IF our_king = MoveFrom(move) THEN MoveTo(move) ELSE our_king
    IN  IF their_king \in GetAttacks(kRook, ksq, occupied) THEN FALSE
        ELSE CheckersTo(b, ksq, occupied, our)
             \ (IF ksq # our_king THEN {} ELSE {MoveTo(move)}) = {}

\* The piece type GeneratePseudolegalMoves finds on source (-1: none).
TypeOn(b, source) ==
    IF source \in b.rooks THEN kRook
    ELSE IF source \in b.advisors THEN kAdvisor
    ELSE IF source \in b.cannons THEN kCannon
    ELSE IF source \in b.pawns THEN kPawn
    ELSE IF source \in b.knights THEN kKnight
    ELSE IF source \in b.bishops THEN kBishop
    ELSE IF source = b.our_king THEN kKing
    ELSE -1

\* The destinations GeneratePseudolegalMoves gives the piece on source: the
\* attacks of its type off our own pieces; for a cannon the rook attacks on
\* empty squares and the cannon attacks on their pieces.
Destinations(b, source) ==
    LET Of(pt) ==
            UNION {GetAttacks(t, source, Occupied(b))
                   \cap (IF pt # kCannon THEN Squares \ b.our_pieces
                         ELSE IF t = kRook THEN Squares \ Occupied(b)
                         ELSE b.their_pieces) :
                   t \in IF pt = kCannon THEN {kRook, kCannon}
                         ELSE IF pt = -1 THEN {} ELSE {pt}}
    IN  Of(TypeOn(b, source))

RECURSIVE MovesFromSources(_, _)
MovesFromSources(b, sources) ==
    IF sources = <<>> THEN <<>>
    ELSE LET source == Head(sources)
             dests == SetToSeq(Destinations(b, source))
         IN  [i \in 1..Len(dests) |-> MoveWhite(source, dests[i])]
             \o MovesFromSources(b, Tail(sources))

\* ChessBoard::GeneratePseudolegalMoves: own pieces by increasing square,
\* the destinations of each by increasing square.
GeneratePseudolegalMoves(b) == MovesFromSources(b, SetToSeq(b.our_pieces))

\* GenerateLegalMoves that returns the pseudo-legal moves unfiltered.
GenerateUnfilteredMoves(b) == GeneratePseudolegalMoves(b)

\* GenerateLegalMoves that returns the legal moves last move first.
GenerateLegalMovesReversed(b) ==
    LET Legal(m) == IsLegalMove(b, m, TRUE)
        Reversed(s) == [i \in 1..Len(s) |-> s[Len(s) + 1 - i]]
    IN  Reversed(SelectSeq(GeneratePseudolegalMoves(b), Legal))

\* ChessBoard::GenerateLegalMoves.
GenerateLegalMoves(b) ==
    LET Legal(m) == IsLegalMove(b, m, TRUE)
    IN  SelectSeq(GeneratePseudolegalMoves(b), Legal)

\* ChessBoard::MakeChase: the bit of the piece standing on `to`.
MakeChase(b, to) ==
    {b.id_board[IF b.flipped THEN SquareFlip(to) ELSE to]}

\* ChaseFrom reporting every enemy piece the piece on `from` attacks.
ChaseFromAnyAttack(b, attackerType, attacker, from) ==
    UNION {MakeChase(b, to) :
           to \in GetAttacks(attackerType, from, Occupied(b))
                      \cap b.their_pieces}

\* The pieces of `attacks` that UsChased reports as chased by the piece on
\* `from` (the body of the addChase lambda for one attacker).
ChaseFrom(b, attackerType, attacker, from) ==
    LET occ == Occupied(b)
        attacks0 == (GetAttacks(attackerType, from, occ) \cap b.their_pieces)
                    \ (Kings(b) \cup (b.pawns \cap HalfBB(1)))
        candidates ==
            IF attackerType = kKnight \/ attackerType = kCannon
            THEN attacks0 \cap b.rooks
            ELSE IF attackerType = kAdvisor \/ attackerType = kBishop
            THEN attacks0 \cap (b.rooks \cup b.knights \cup b.cannons)
            ELSE {}
        attacks == attacks0 \ candidates
        TrueChase(to) ==
            LET after == ApplyMove(b, MoveWhite(from, to)).board
            IN  \A s \in RecapturesTo(after, to) :
                    ~IsLegalMove(after, MoveWhite(s, to), FALSE)
        Chased(to) ==
            /\ IsLegalMove(b, MoveWhite(from, to), TRUE)
            /\ TrueChase(to)
            /\ \/ to \notin attacker
               \/ /\ attackerType = kKnight
                  /\ from \notin GetAttacks(kKnight, to, occ)
               \/ ~IsLegalMove(b, MoveWhite(to, from), FALSE)
    IN  UNION {MakeChase(b, to) :
               to \in {c \in candidates :
                          IsLegalMove(b, MoveWhite(from, c), TRUE)}}
        \cup UNION {MakeChase(b, to) : to \in {a \in attacks : Chased(a)}}

AddChase(b, attackerType, attacker) ==
    UNION {ChaseFrom(b, attackerType, attacker, from) :
           from \in attacker \cap b.our_pieces}

\* ChessBoard::UsChased: the ids of the enemy pieces "we" chase.
UsChased(b) ==
    AddChase(b, kRook, b.rooks)
    \cup AddChase(b, kAdvisor, b.advisors)
    \cup AddChase(b, kCannon, b.cannons)
    \cup AddChase(b, kKnight, b.knights)
    \cup AddChase(b, kBishop, b.bishops)

\* ChessBoard::ThemChased.
ThemChased(b) == UsChased(Mirror(b))

\* The DrawLevel lambda of HasMatingMaterial.
DrawLevel(b) ==
    LET ourCannons == Cardinality(b.cannons \cap b.our_pieces)
        theirCannons == Cardinality(b.cannons \cap b.their_pieces)
        cannon_side_occ ==
            IF ourCannons = 0 THEN b.their_pieces ELSE b.our_pieces
        non_cannon_side_occ ==
            IF ourCannons = 0 THEN b.our_pieces ELSE b.their_pieces
        twoCannons ==
            IF ourCannons = 1 /\ theirCannons = 1 /\ b.advisors = {}
            THEN (IF b.bishops = {} THEN "DIRECT_DRAW" ELSE "MATE_DRAW")
            ELSE "NO_DRAW"
    IN  IF b.cannons = {} THEN "DIRECT_DRAW"
        ELSE IF Cardinality(b.cannons) = 1
                /\ b.advisors \cap cannon_side_occ = {}
                /\ b.advisors \cap non_cannon_side_occ = {}
        THEN "DIRECT_DRAW"
        ELSE IF Cardinality(b.cannons) = 1
                /\ b.advisors \cap cannon_side_occ = {}
                /\ Cardinality(b.advisors \cap non_cannon_side_occ) = 1
        THEN (IF b.bishops \cap cannon_side_occ = {}
              THEN "DIRECT_DRAW" ELSE "MATE_DRAW")
        ELSE IF Cardinality(b.cannons) = 1
                /\ b.advisors \cap cannon_side_occ = {}
                /\ b.bishops \cap cannon_side_occ = {}
        THEN "MATE_DRAW"
        ELSE twoCannons

\* HasMatingMaterial counting the material of the side to move only.
HasMatingMaterialOfMover(b) ==
    (b.pawns \cup b.rooks \cup b.knights \cup b.cannons) \cap b.our_pieces
        # {}

\* ChessBoard::HasMatingMaterial.
HasMatingMaterial(b) ==
    IF b.pawns = {} /\ b.rooks = {} /\ b.knights = {}
    THEN LET level == DrawLevel(b)
         IN  IF level = "NO_DRAW" THEN TRUE
             ELSE IF level = "MATE_DRAW"
             THEN \E m \in Range(GenerateLegalMoves(b)) :
                      GenerateLegalMoves(Mirror(ApplyMove(b, m).board)) = <<>>
             ELSE FALSE
    ELSE TRUE

\* The board SetFromFen builds from a board field listing `pieces` (each
\* <<square, piece type, is_theirs>>) followed by a side-to-move token:
\* PutPiece for every piece, the ids of id_board_ in square order per side,
\* then Mirror when Black is to move.
RECURSIVE PutPieces(_, _)
PutPieces(b, pieces) ==
    IF pieces = <<>> THEN b
    ELSE PutPieces(PutPiece(b, Head(pieces)[1], Head(pieces)[2],
                            Head(pieces)[3]),
                   Tail(pieces))

SetupIdBoard(b) ==
    [b EXCEPT !.id_board =
        [sq \in Squares |->
            IF sq \in b.our_pieces
            THEN Cardinality({t \in b.our_pieces : t < sq})
            ELSE IF sq \in b.their_pieces
            THEN Cardinality({t \in b.their_pieces : t < sq})
            ELSE 0]]

SetFromFen(pieces, black_to_move) ==
    LET b == SetupIdBoard(PutPieces(EmptyBoard, pieces))
    IN  IF black_to_move THEN Mirror(b) ELSE b

----------------------------------------------------------------------------
(* Position (chess/position.cc).                                           *)

\* The threshold of the check counters in Position::Position(parent, m).
kCheckLimit == 10

\* The no-progress limit of ComputeGameResult.
kRule50Limit == 120

\* The value the check counters of a freshly constructed Position hold.
InitialCheckCount == 0

\* Position::Position(const ChessBoard&, int rule50_ply, int game_ply).
PositionFromBoard(board, rule50_ply, game_ply) ==
    [board |-> board, rule50_ply |-> rule50_ply,
     repetitions |-> 0, cycle_length |-> 0,
     us_check |-> InitialCheckCount, them_check |-> InitialCheckCount,
     ply_count |-> game_ply]

\* PositionFromParent without the reset after a zeroing move: theorem C8
\* must tell the two apart.
PositionFromParentKeepingClock(parent, m) ==
    LET applied == ApplyMove(parent.board, m)
        board == Mirror(applied.board)
        us0 == parent.them_check
        them0 == parent.us_check
        inCheck == IsUnderCheck(board)
        them1 == IF inCheck THEN them0 + 1 ELSE them0
        enter == ~inCheck \/ them1 <= kCheckLimit
        answer == enter /\ us0 > kCheckLimit /\ IsUnderCheck(parent.board)
    IN  [board |-> board,
         rule50_ply |-> IF enter /\ ~answer THEN parent.rule50_ply + 1
                        ELSE parent.rule50_ply,
         repetitions |-> 0, cycle_length |-> 0,
         us_check |-> IF answer THEN us0 + 1 ELSE us0,
         them_check |-> them1,
         ply_count |-> parent.ply_count + 1]

\* PositionFromParent advancing the no-progress counter on every move that
\* is not zeroing: theorem C9 must tell the two apart.
PositionFromParentAlwaysCounting(parent, m) ==
    LET applied == ApplyMove(parent.board, m)
        board == Mirror(applied.board)
        us0 == parent.them_check
        them0 == parent.us_check
        inCheck == IsUnderCheck(board)
        them1 == IF inCheck THEN them0 + 1 ELSE them0
        enter == ~inCheck \/ them1 <= kCheckLimit
        answer == enter /\ us0 > kCheckLimit /\ IsUnderCheck(parent.board)
    IN  [board |-> board,
         rule50_ply |-> IF applied.zeroing THEN 0
                        ELSE parent.rule50_ply + 1,
         repetitions |-> 0, cycle_length |-> 0,
         us_check |-> IF applied.zeroing THEN 0
                      ELSE IF answer THEN us0 + 1 ELSE us0,
         them_check |-> IF applied.zeroing THEN 0 ELSE them1,
         ply_count |-> parent.ply_count + 1]

\* PositionFromParent with the counter of the mover returned to 0 by a move
\* that gives no check.
PositionFromParentCountingRuns(parent, m) ==
    LET applied == ApplyMove(parent.board, m)
        board == Mirror(applied.board)
        us0 == parent.them_check
        inCheck == IsUnderCheck(board)
        them1 == IF inCheck THEN parent.us_check + 1 ELSE 0
        enter == ~inCheck \/ them1 <= kCheckLimit
        answer == enter /\ us0 > kCheckLimit /\ IsUnderCheck(parent.board)
    IN  [board |-> board,
         rule50_ply |-> IF applied.zeroing THEN 0
                        ELSE IF enter /\ ~answer THEN parent.rule50_ply + 1
                        ELSE parent.rule50_ply,
         repetitions |-> 0, cycle_length |-> 0,
         us_check |-> IF applied.zeroing THEN 0
                      ELSE IF answer THEN us0 + 1 ELSE us0,
         them_check |-> IF applied.zeroing THEN 0 ELSE them1,
         ply_count |-> parent.ply_count + 1]

\* Position::Position(const Position& parent, Move m).  After(applied) takes
\* the result of ApplyMove, OnBoard the mirrored board, Counted whether the
\* side to move is in check on it and whether the mover was in check before.
PositionFromParent(parent, m) ==
    LET Counted(zeroing, board, inCheck, wasInCheck) ==
            LET us0 == parent.them_check
                them0 == parent.us_check
                \* ++them_check is evaluated only when
                \* us_board_.IsUnderCheck().
                them1 == IF inCheck THEN them0 + 1 ELSE them0
                enter == ~inCheck \/ them1 <= kCheckLimit
                answer == enter /\ us0 > kCheckLimit /\ wasInCheck
                us1 == IF answer THEN us0 + 1 ELSE us0
                rule1 == IF enter /\ ~answer THEN parent.rule50_ply + 1
                         ELSE parent.rule50_ply
            IN  [board |-> board,
                 rule50_ply |-> IF zeroing THEN 0 ELSE rule1,
                 repetitions |-> 0, cycle_length |-> 0,
                 us_check |-> IF zeroing THEN 0 ELSE us1,
                 them_check |-> IF zeroing THEN 0 ELSE them1,
                 ply_count |-> parent.ply_count + 1]
        OnBoard(zeroing, board) ==
            Counted(zeroing, board, IsUnderCheck(board),
                    IsUnderCheck(parent.board))
        After(applied) == OnBoard(applied.zeroing, Mirror(applied.board))
    IN  After(ApplyMove(parent.board, m))

\* Position::IsBlackToMove.
IsBlackToMove(pos) == pos.board.flipped

----------------------------------------------------------------------------
(* PositionHistory (chess/position.cc).  positions_ is a sequence; the     *)
(* code's index idx is element idx + 1 here.                               *)

Last(ps) == ps[Len(ps)]

At(ps, idx) == ps[idx + 1]

RECURSIVE RepetitionScanCountingOnce(_, _)
\* RepetitionScan with "return 1" in place of "return 1 + pos.GetRepetitions()":
\* theorem C1 must tell the two apart.
RepetitionScanCountingOnce(ps, idx) ==
    IF idx < 0 THEN [repetitions |-> 0, cycle_length |-> 0]
    ELSE IF At(ps, idx).board = Last(ps).board
    THEN [repetitions |-> 1, cycle_length |-> Len(ps) - 1 - idx]
    ELSE IF At(ps, idx).rule50_ply < 2
    THEN [repetitions |-> 0, cycle_length |-> 0]
    ELSE RepetitionScanCountingOnce(ps, idx - 2)

RECURSIVE RepetitionScan(_, _)
\* The loop of ComputeLastMoveRepetitions from index idx downward.
RepetitionScan(ps, idx) ==
    IF idx < 0 THEN [repetitions |-> 0, cycle_length |-> 0]
    ELSE IF At(ps, idx).board = Last(ps).board
    THEN [repetitions |-> 1 + At(ps, idx).repetitions,
          cycle_length |-> Len(ps) - 1 - idx]
    ELSE IF At(ps, idx).rule50_ply < 2
    THEN [repetitions |-> 0, cycle_length |-> 0]
    ELSE RepetitionScan(ps, idx - 2)

\* PositionHistory::ComputeLastMoveRepetitions.
ComputeLastMoveRepetitions(ps) ==
    IF Last(ps).rule50_ply < 4
    THEN [repetitions |-> 0, cycle_length |-> 0]
    ELSE RepetitionScan(ps, Len(ps) - 5)

\* Append counting the repetitions before the new position is pushed:
\* theorem C6 must tell the two apart.
HistoryAppendCountingFirst(ps, m) ==
    LET r == ComputeLastMoveRepetitions(ps)
        pushed == Append(ps, PositionFromParent(Last(ps), m))
    IN  [pushed EXCEPT ![Len(pushed)].repetitions = r.repetitions,
                       ![Len(pushed)].cycle_length = r.cycle_length]

\* Append storing the repetitions in the position the new one was derived
\* from: theorem C10 must tell the two apart.
HistoryAppendMarkingParent(ps, m) ==
    LET pushed == Append(ps, PositionFromParent(Last(ps), m))
        r == ComputeLastMoveRepetitions(pushed)
    IN  [pushed EXCEPT ![Len(ps)].repetitions = r.repetitions,
                       ![Len(ps)].cycle_length = r.cycle_length]

\* PositionHistory::Append.
HistoryAppend(ps, m) ==
    LET SetRepetitions(pushed, r) ==
            [pushed EXCEPT ![Len(pushed)].repetitions = r.repetitions,
                           ![Len(pushed)].cycle_length = r.cycle_length]
        Counted(pushed) ==
            SetRepetitions(pushed, ComputeLastMoveRepetitions(pushed))
    IN  Counted(Append(ps, PositionFromParent(Last(ps), m)))

\* PositionHistory::Pop.
HistoryPop(ps) == SubSeq(ps, 1, Len(ps) - 1)

\* PositionHistory::Reset(board, rule50_ply, game_ply).
HistoryReset(board, rule50_ply, game_ply) ==
    <<PositionFromBoard(board, rule50_ply, game_ply)>>

RECURSIVE DidRepeatScanPastZeroing(_, _)
\* DidRepeatScan without the stop at a no-progress counter of 0: theorem C7
\* must tell the two apart.
DidRepeatScanPastZeroing(ps, idx) ==
    IF idx < 0 THEN FALSE
    ELSE IF At(ps, idx).repetitions > 0 THEN TRUE
    ELSE DidRepeatScanPastZeroing(ps, idx - 1)

RECURSIVE DidRepeatScan(_, _)
DidRepeatScan(ps, idx) ==
    IF idx < 0 THEN FALSE
    ELSE IF At(ps, idx).repetitions > 0 THEN TRUE
    ELSE IF At(ps, idx).rule50_ply = 0 THEN FALSE
    ELSE DidRepeatScan(ps, idx - 1)

\* PositionHistory::DidRepeatSinceLastZeroingMove.
DidRepeatSinceLastZeroingMove(ps) == DidRepeatScan(ps, Len(ps) - 1)

\* Verdict with the two one-sided check verdicts exchanged: theorem C4 must
\* tell the two apart.
VerdictCheckExchanged(checkThem, checkUs, chaseThem, chaseUs) ==
    IF checkThem \/ checkUs
    THEN (IF ~checkUs THEN "WHITE_WON"
          ELSE IF ~checkThem THEN "BLACK_WON" ELSE "DRAW")
    ELSE IF chaseThem # {} \/ chaseUs # {}
    THEN (IF chaseUs = {} THEN "BLACK_WON"
          ELSE IF chaseThem = {} THEN "WHITE_WON" ELSE "DRAW")
    ELSE "DRAW"

\* Verdict without the chase rule: theorem C5 must tell the two apart.
VerdictWithoutChase(checkThem, checkUs, chaseThem, chaseUs) ==
    IF checkThem \/ checkUs
    THEN (IF ~checkUs THEN "BLACK_WON"
          ELSE IF ~checkThem THEN "WHITE_WON" ELSE "DRAW")
    ELSE "DRAW"

\* The verdict RuleJudge returns at the first occurrence of the board.
Verdict(checkThem, checkUs, chaseThem, chaseUs) ==
    IF checkThem \/ checkUs
    THEN (IF ~checkUs THEN "BLACK_WON"
          ELSE IF ~checkThem THEN "WHITE_WON" ELSE "DRAW")
    ELSE IF chaseThem # {} \/ chaseUs # {}
    THEN (IF chaseUs = {} THEN "BLACK_WON"
          ELSE IF chaseThem = {} THEN "WHITE_WON" ELSE "DRAW")
    ELSE "DRAW"

\* The chase a move creates: what the mover chases in the position after its
\* move and did not chase in the position before it.
NewChase(ps, idx) ==
    ThemChased(At(ps, idx).board) \ UsChased(At(ps, idx - 1).board)

\* What the walk of RuleJudge holds where it ends: at the first occurrence
\* of the board (found) or past the root of the history.
WalkEnd(found, checkThem, checkUs, chaseThem, chaseUs) ==
    [found |-> found, checkThem |-> checkThem, checkUs |-> checkUs,
     chaseThem |-> chaseThem, chaseUs |-> chaseUs]

RECURSIVE JudgeLoopForgetting(_, _, _, _, _, _)
\* JudgeLoop with the check flags set again by every check met: a move
\* that gave no check is forgotten at the next check.
JudgeLoopForgetting(ps, idx, checkThem, checkUs, chaseThem, chaseUs) ==
    IF idx < 0 THEN WalkEnd(FALSE, FALSE, FALSE, {}, {})
    ELSE
      LET pos == At(ps, idx)
          c1 == IsUnderCheck(pos.board)
          chaseThem1 == IF c1 THEN {} ELSE chaseThem
          chaseUs1 == IF c1 THEN {} ELSE chaseUs
      IN  IF pos.board = Last(ps).board /\ pos.repetitions = 0
          THEN WalkEnd(TRUE, c1, checkUs, chaseThem1, chaseUs1)
          ELSE IF idx - 1 >= 0
          THEN LET c2 == IsUnderCheck(At(ps, idx - 1).board)
                   chaseThem2 == IF c2 THEN {} ELSE chaseThem1
                   chaseUs2 == IF c2 THEN {} ELSE chaseUs1
               IN  JudgeLoopForgetting(
                       ps, idx - 2, c1, c2,
                       chaseThem2 \cap NewChase(ps, idx),
                       IF idx - 2 >= 0
                       THEN chaseUs2 \cap NewChase(ps, idx - 1)
                       ELSE chaseUs2)
          ELSE JudgeLoopForgetting(ps, idx - 2, c1, checkUs,
                                   chaseThem1, chaseUs1)

RECURSIVE JudgeLoop(_, _, _, _, _, _)
\* The loop of RuleJudge at index idx with the current flags and bitmaps.
JudgeLoop(ps, idx, checkThem, checkUs, chaseThem, chaseUs) ==
    IF idx < 0 THEN WalkEnd(FALSE, FALSE, FALSE, {}, {})
    ELSE
      LET pos == At(ps, idx)
          c1 == IsUnderCheck(pos.board)
          checkThem1 == checkThem /\ c1
          chaseThem1 == IF c1 THEN {} ELSE chaseThem
          chaseUs1 == IF c1 THEN {} ELSE chaseUs
      IN  IF pos.board = Last(ps).board /\ pos.repetitions = 0
          THEN WalkEnd(TRUE, checkThem1, checkUs, chaseThem1, chaseUs1)
          ELSE IF idx - 1 >= 0
          THEN LET c2 == IsUnderCheck(At(ps, idx - 1).board)
                   chaseThem2 == IF c2 THEN {} ELSE chaseThem1
                   chaseUs2 == IF c2 THEN {} ELSE chaseUs1
               IN  JudgeLoop(ps, idx - 2, checkThem1, checkUs /\ c2,
                             chaseThem2 \cap NewChase(ps, idx),
                             IF idx - 2 >= 0
                             THEN chaseUs2 \cap NewChase(ps, idx - 1)
                             ELSE chaseUs2)
          ELSE JudgeLoop(ps, idx - 2, checkThem1, checkUs,
                         chaseThem1, chaseUs1)

\* The walk of RuleJudge from its initial flags and bitmaps, on a history
\* of three positions or more.
JudgeWalk(ps) ==
    JudgeLoop(ps, Len(ps) - 3,
              IsUnderCheck(Last(ps).board),
              IsUnderCheck(At(ps, Len(ps) - 2).board),
              NewChase(ps, Len(ps) - 1),
              NewChase(ps, Len(ps) - 2))

\* What RuleJudge does where its walk ends: the verdict, or the throw.
Judged(end) ==
    IF end.found
    THEN Verdict(end.checkThem, end.checkUs, end.chaseThem, end.chaseUs)
    ELSE "EXCEPTION"

\* RuleJudge leaving undecided until the no-progress counter has reached 10.
RuleJudgeExitingLate(ps) ==
    IF Last(ps).rule50_ply < 10 THEN "UNDECIDED"
    ELSE IF Len(ps) < 3 THEN "UNDEFINED"
    ELSE Judged(JudgeWalk(ps))

\* PositionHistory::RuleJudge.  "EXCEPTION" is the throw at the end of the
\* walk; "UNDEFINED" is the read of positions_[size - 2] or [size - 3] of a
\* history too short to hold them.
RuleJudge(ps) ==
    IF Last(ps).rule50_ply < 4 THEN "UNDECIDED"
    ELSE IF Len(ps) < 3 THEN "UNDEFINED"
    ELSE Judged(JudgeWalk(ps))

\* operator-(GameResult).
Negate(res) ==
    IF res = "BLACK_WON" THEN "WHITE_WON"
    ELSE IF res = "WHITE_WON" THEN "BLACK_WON"
    ELSE res

\* ComputeGameResult with the no-progress limit examined first: theorem C2
\* must tell the two apart.
ComputeGameResultClockFirst(ps) ==
    LET board == Last(ps).board
    IN  IF Last(ps).rule50_ply >= kRule50Limit THEN "DRAW"
        ELSE IF GenerateLegalMoves(board) = <<>>
        THEN (IF IsBlackToMove(Last(ps)) THEN "WHITE_WON" ELSE "BLACK_WON")
        ELSE IF Last(ps).repetitions >= 2
        THEN (IF IsBlackToMove(Last(ps)) THEN RuleJudge(ps)
              ELSE Negate(RuleJudge(ps)))
        ELSE IF ~HasMatingMaterial(board) THEN "DRAW"
        ELSE "UNDECIDED"

\* ComputeGameResult returning the rule judge's verdict as it is: theorem C3
\* must tell the two apart.
ComputeGameResultUnconverted(ps) ==
    LET board == Last(ps).board
    IN  IF GenerateLegalMoves(board) = <<>>
        THEN (IF IsBlackToMove(Last(ps)) THEN "WHITE_WON" ELSE "BLACK_WON")
        ELSE IF Last(ps).repetitions >= 2 THEN RuleJudge(ps)
        ELSE IF ~HasMatingMaterial(board) THEN "DRAW"
        ELSE IF Last(ps).rule50_ply >= kRule50Limit THEN "DRAW"
        ELSE "UNDECIDED"

\* PositionHistory::ComputeGameResult.
ComputeGameResult(ps) ==
    LET board == Last(ps).board
    IN  IF GenerateLegalMoves(board) = <<>>
        THEN (IF IsBlackToMove(Last(ps)) THEN "WHITE_WON" ELSE "BLACK_WON")
        ELSE IF Last(ps).repetitions >= 2
        THEN (IF IsBlackToMove(Last(ps)) THEN RuleJudge(ps)
              ELSE Negate(RuleJudge(ps)))
        ELSE IF ~HasMatingMaterial(board) THEN "DRAW"
        ELSE IF Last(ps).rule50_ply >= kRule50Limit THEN "DRAW"
        ELSE "UNDECIDED"

----------------------------------------------------------------------------
(* FEN text: ChessBoard::SetFromFen and BoardToFen (chess/board.cc), GetFen *)
(* and Position::FromFen (chess/position.cc).  A std::string is a string;  *)
(* the character fen[pos] of the code is CharAt(fen, pos + 1).             *)

Digits == <<"0", "1", "2", "3", "4", "5", "6", "7", "8", "9">>

IsDigit(c) == \E d \in 1..10 : Digits[d] = c

\* c - '0' for a digit c.
DigitValue(c) == (CHOOSE d \in 1..10 : Digits[d] = c) - 1

\* The letters of PieceType::ToString, by piece type index.
LowerPieces == <<"r", "a", "c", "p", "n", "b", "k">>

UpperPieces == <<"R", "A", "C", "P", "N", "B", "K">>

\* PieceType::Parse: the index of the piece type of letter c, 7 (not valid)
\* for any other character.
PieceTypeParse(c) ==
    IF \E i \in 1..7 : LowerPieces[i] = c \/ UpperPieces[i] = c
    THEN (CHOOSE i \in 1..7 : LowerPieces[i] = c \/ UpperPieces[i] = c) - 1
    ELSE 7

\* std::islower on a piece letter.
IsLower(c) == \E i \in 1..7 : LowerPieces[i] = c

\* std::tolower on the side-to-move character.
ToLower(c) == IF c = "B" THEN "b" ELSE IF c = "W" THEN "w" ELSE c

\* The squares a bishop may stand on.
BishopBB ==
    {s \in Squares :
        \/ FileOf(s) \in {0, 4, 8} /\ RankOf(s) \in {2, 7}
        \/ FileOf(s) \in {2, 6} /\ RankOf(s) \in {0, 4, 5, 9}}

PawnFileBB == {s \in Squares : FileOf(s) \in {0, 2, 4, 6, 8}}

\* PawnBB that lets a pawn of either case stand anywhere.
PawnAnywhere(i) == Squares

\* PawnBB[0]: the squares of an upper-case pawn; PawnBB[1]: of a lower-case
\* pawn.
PawnBB(i) ==
    IF i = 0
    THEN HalfBB(1) \cup ((RankBB(3) \cup RankBB(4)) \cap PawnFileBB)
    ELSE HalfBB(0) \cup ((RankBB(6) \cup RankBB(5)) \cap PawnFileBB)

\* The loop of SetFromFen over one rank that takes a piece beyond file i for
\* a piece on file a of the rank above, as a cursor with no check does.
RECURSIVE ParseRankUnbounded(_, _, _, _, _)
ParseRankUnbounded(f, pos, rank, file, pieces) ==
    LET Complain(msg) == [error |-> msg, pos |-> pos, pieces |-> pieces]
        Piece(c, piece, sq) ==
            IF piece \in {kAdvisor, kKing} /\ sq \notin Palace
            THEN Complain(IF piece = kAdvisor THEN "advisor not in palace"
                          ELSE "king not in palace")
            ELSE IF piece = kPawn
                    /\ sq \notin PawnBB(IF IsLower(c) THEN 1 ELSE 0)
            THEN Complain("pawn in wrong place")
            ELSE IF piece = kBishop /\ sq \notin BishopBB
            THEN Complain("bishop in wrong place")
            ELSE ParseRankUnbounded(f, pos + 1, rank, file + 1,
                                    Append(pieces, <<sq, piece, IsLower(c)>>))
        Char(c) ==
            IF c = " " \/ c = "/" THEN Complain("")
            ELSE IF IsDigit(c)
            THEN ParseRankUnbounded(f, pos + 1, rank, file + DigitValue(c),
                                    pieces)
            ELSE IF PieceTypeParse(c) = 7
            THEN Complain("invalid character as piece")
            ELSE Piece(c, PieceTypeParse(c), (rank * kFileNB + file) % NumSquares)
    IN  IF pos >= Len(f) THEN Complain("") ELSE Char(CharAt(f, pos + 1))

\* The loop of SetFromFen over the board field while it stays in one rank,
\* from position pos with the cursor on (file, rank): the message of the
\* complaint ("" for none), the position of the character that ends the
\* rank ("/", a space, or the end of the text) or draws the complaint, and
\* the pieces put on the board so far, in order.
RECURSIVE ParseRank(_, _, _, _, _)
ParseRank(f, pos, rank, file, pieces) ==
    LET Complain(msg) == [error |-> msg, pos |-> pos, pieces |-> pieces]
        Piece(c, piece, sq) ==
            IF piece \in {kAdvisor, kKing} /\ sq \notin Palace
            THEN Complain(IF piece = kAdvisor THEN "advisor not in palace"
                          ELSE "king not in palace")
            ELSE IF piece = kPawn
                    /\ sq \notin PawnBB(IF IsLower(c) THEN 1 ELSE 0)
            THEN Complain("pawn in wrong place")
            ELSE IF piece = kBishop /\ sq \notin BishopBB
            THEN Complain("bishop in wrong place")
            ELSE ParseRank(f, pos + 1, rank, file + 1,
                           Append(pieces, <<sq, piece, IsLower(c)>>))
        Char(c) ==
            IF c = " " \/ c = "/" THEN Complain("")
            ELSE IF IsDigit(c)
            THEN IF file + DigitValue(c) > 9 THEN Complain("too many files")
                 ELSE ParseRank(f, pos + 1, rank, file + DigitValue(c),
                                pieces)
            ELSE IF PieceTypeParse(c) = 7
            THEN Complain("invalid character as piece")
            ELSE IF file >= kFileNB THEN Complain("piece out of board")
            ELSE Piece(c, PieceTypeParse(c), rank * kFileNB + file)
    IN  IF pos >= Len(f) THEN Complain("") ELSE Char(CharAt(f, pos + 1))

\* The loop of SetFromFen over the board field, from position pos at the
\* start of rank: a "/" moves the cursor to file a of the rank below, and
\* draws a complaint on rank 0.
RECURSIVE ParseBoard(_, _, _, _)
ParseBoard(f, pos, rank, pieces) ==
    LET Ended(r) ==
            IF r.error # "" \/ r.pos >= Len(f) \/ CharAt(f, r.pos + 1) # "/"
            THEN r
            ELSE IF rank = 0 THEN [r EXCEPT !.error = "too many ranks"]
            ELSE ParseBoard(f, r.pos + 1, rank - 1, r.pieces)
    IN  Ended(ParseRank(f, pos, rank, 0, pieces))

\* skip_whitespace that skips nothing.
SkipNothing(f, pos) == pos

\* skip_whitespace: the position of the first character at or after pos
\* that is no space (the length of f if there is none).
SkipWhitespace(f, pos) ==
    CHOOSE p \in pos..Len(f) :
        /\ \A q \in pos..(p - 1) : CharAt(f, q + 1) = " "
        /\ p = Len(f) \/ CharAt(f, p + 1) # " "

\* skip_whitespace(where) complains: a character that is no space at pos.
SpaceExpected(f, pos) == pos < Len(f) /\ CharAt(f, pos + 1) # " "

\* fen.find(' ', pos), or the length of f if no space follows.
TokenEnd(f, pos) ==
    CHOOSE p \in pos..Len(f) :
        /\ \A q \in pos..(p - 1) : CharAt(f, q + 1) # " "
        /\ p = Len(f) \/ CharAt(f, p + 1) = " "

\* The value of the decimal digits s[from..to].
RECURSIVE Decimal(_, _, _)
Decimal(s, from, to) ==
    IF to < from THEN 0
    ELSE Decimal(s, from, to - 1) * 10 + DigitValue(CharAt(s, to))

\* std::from_chars into an int: an optional minus sign and the longest run
\* of digits after it; no digit, or a value out of the range of int, is an
\* error, characters after the digits are not.
FromChars(num) ==
    LET start == IF Len(num) > 0 /\ CharAt(num, 1) = "-" THEN 2 ELSE 1
        Run(stop) ==
            LET Valued(v) ==
                    [ok |-> stop >= start /\ v - (start - 1) <= 2147483647,
                     value |-> IF start = 2 THEN -v ELSE v]
            IN  Valued(Decimal(num, start, stop))
    IN  Run(CHOOSE p \in (start - 1)..Len(num) :
                /\ \A q \in start..p : IsDigit(CharAt(num, q))
                /\ p = Len(num) \/ ~IsDigit(CharAt(num, p + 1)))

\* ChessBoard::SetFromFen on the text f: the message of the exception ("" if
\* none is thrown), the board, and what is stored through rule50_ply and
\* moves.
SetFromFenText(f) ==
    LET Thrown(msg) ==
            [error |-> msg, board |-> EmptyBoard, rule50_ply |-> 0,
             moves |-> 1]
        Done(b, r, m) ==
            [error |-> "", board |-> b, rule50_ply |-> r, moves |-> m]
        Moves(b, r, n, stop) ==
            IF ~n.ok THEN Thrown("bad total moves")
            ELSE IF SkipWhitespace(f, stop) # Len(f)
            THEN Thrown("extra characters")
            ELSE Done(b, r, n.value)
        MovesAt(b, r, pos) ==
            Moves(b, r, FromChars(SubSeq(f, pos + 1, TokenEnd(f, pos))),
                  TokenEnd(f, pos))
        Rule50(b, n, next) ==
            IF ~n.ok THEN Thrown("bad rule 60 halfmoves")
            ELSE IF next = Len(f) THEN Done(b, n.value, 1)
            ELSE MovesAt(b, n.value, next)
        Rule50At(b, pos) ==
            Rule50(b, FromChars(SubSeq(f, pos + 1, TokenEnd(f, pos))),
                   SkipWhitespace(f, TokenEnd(f, pos)))
        EnPassant(b, pos) ==
            IF SpaceExpected(f, pos)
            THEN Thrown("space expected after en passant")
            ELSE IF SkipWhitespace(f, pos) = Len(f) THEN Done(b, 0, 1)
            ELSE Rule50At(b, SkipWhitespace(f, pos))
        EnPassantAt(b, pos) ==
            EnPassant(b, IF CharAt(f, pos + 1) = "-" THEN pos + 1 ELSE pos)
        Castling(b, pos) ==
            IF SpaceExpected(f, pos)
            THEN Thrown("space expected after castling")
            ELSE IF SkipWhitespace(f, pos) = Len(f) THEN Done(b, 0, 1)
            ELSE EnPassantAt(b, SkipWhitespace(f, pos))
        CastlingAt(b, pos) ==
            Castling(b, IF CharAt(f, pos + 1) = "-" THEN pos + 1 ELSE pos)
        Side(pieces, c, pos) ==
            IF c \notin {"b", "w"} THEN Thrown("invalid side to move")
            ELSE IF SpaceExpected(f, pos)
            THEN Thrown("space expected after side to move")
            ELSE IF SkipWhitespace(f, pos) = Len(f)
            THEN Done(SetFromFen(pieces, c = "b"), 0, 1)
            ELSE CastlingAt(SetFromFen(pieces, c = "b"),
                            SkipWhitespace(f, pos))
        Board(r, pos) ==
            IF r.error # "" THEN Thrown(r.error)
            ELSE IF pos = Len(f)
            THEN Done(PutPieces(EmptyBoard, r.pieces), 0, 1)
            ELSE Side(r.pieces, ToLower(CharAt(f, pos + 1)), pos + 1)
        Parsed(r) == Board(r, SkipWhitespace(f, r.pos))
    IN  Parsed(ParseBoard(f, SkipWhitespace(f, 0), 9, <<>>))

\* std::to_string of a natural number.
RECURSIVE NatToString(_)
NatToString(n) ==
    IF n < 10 THEN Digits[n + 1]
    ELSE NatToString(n \div 10) \o Digits[(n % 10) + 1]

\* std::to_string of an int.
IntToString(n) == IF n < 0 THEN "-" \o NatToString(-n) ELSE NatToString(n)

\* The quotient a / b of two ints in C++ (rounded towards zero), b > 0.
IntDiv(a, b) == IF a < 0 THEN -((-a) \div b) ELSE a \div b

\* GetPieceAt: the letter of the piece of board b on sq, "" for none.
GetPieceAt(b, sq) ==
    LET Cased(c) == IF sq \in b.their_pieces THEN LowerPieces[c]
                    ELSE UpperPieces[c]
    IN  IF sq \notin Occupied(b) THEN ""
        ELSE IF TypeOn(b, sq) # -1 THEN Cased(TypeOn(b, sq) + 1)
        ELSE IF sq = b.their_king THEN Cased(kKing + 1)
        ELSE ""

\* The text of one rank in GetFen and in BoardToFen, from column col on with
\* empty empty squares counted: the piece letters, runs of empty squares as
\* their length.
RECURSIVE RowText(_, _, _, _)
RowText(b, row, col, empty) ==
    LET Run == IF empty > 0 THEN IntToString(empty) ELSE ""
        Square(piece) ==
            IF piece # "" THEN Run \o piece \o RowText(b, row, col + 1, 0)
            ELSE RowText(b, row, col + 1, empty + 1)
    IN  IF col = kFileNB THEN Run
        ELSE Square(GetPieceAt(b, row * kFileNB + col))

\* The loop of GetFen with the separator of BoardToFen: after every row but
\* row 1, row 0 included.
RECURSIVE GetFenRowsBut1(_, _)
GetFenRowsBut1(b, row) ==
    RowText(b, row, 0, 0)
    \o (IF row # 1 THEN "/" ELSE "")
    \o (IF row > 0 THEN GetFenRowsBut1(b, row - 1) ELSE "")

\* The loop of GetFen over the rows, from row down to 0.
RECURSIVE GetFenRows(_, _)
GetFenRows(b, row) ==
    RowText(b, row, 0, 0)
    \o (IF row > 0 THEN "/" \o GetFenRows(b, row - 1) ELSE "")

\* GetFen(pos).
GetFen(pos) ==
    LET Rows(board) == GetFenRows(board, 9)
    IN  Rows(IF pos.board.flipped THEN Mirror(pos.board) ELSE pos.board)
        \o (IF IsBlackToMove(pos) THEN " b" ELSE " w")
        \o " - - " \o IntToString(pos.rule50_ply)
        \o " " \o IntToString(IntDiv(pos.ply_count
                                  + (IF IsBlackToMove(pos) THEN 1 ELSE 2), 2))

\* The loop of BoardToFen over the ranks, from rank down to 0.
RECURSIVE BoardToFenRows(_, _)
BoardToFenRows(b, rank) ==
    RowText(b, rank, 0, 0)
    \o (IF rank # 1 THEN "/" ELSE "")
    \o (IF rank > 0 THEN BoardToFenRows(b, rank - 1) ELSE "")

\* BoardToFen(in_board).
BoardToFen(in_board) ==
    LET Rows(board) == BoardToFenRows(board, 9)
    IN  Rows(IF in_board.flipped THEN Mirror(in_board) ELSE in_board)
        \o (IF in_board.flipped THEN " b" ELSE " w")

\* No text has been parsed yet.
NotParsed ==
    [by |-> "", error |-> "", board |-> EmptyBoard, rule50_ply |-> 0,
     moves |-> 0]

\* No board has been serialised yet.
NotEmitted == [by |-> "", text |-> ""]

----------------------------------------------------------------------------
(* Magic bitboards (chess/board.cc): the magic numbers, MagicParams::index *)
(* and the parameters BuildAttacksTable sets.  A 128-bit number is the     *)
(* sequence of its sixteen bytes, the least significant first.             *)

\* The squares whose tables are built here, out of the 90 of the loops of
\* InitializeMagicBitboards and BuildAttacksTable.
MagicSquares == {8, 27, 40}

\* The number of occupancy subsets the loop of BuildAttacksTable is followed
\* through per square.
MaxSubsets == 32

\* The piece types that have an attack table, in the order
\* InitializeMagicBitboards builds the tables.
BuildOrder == <<kRook, kCannon, kBishop, kKnight, kKnightTo>>

\* The entries of kRookMagicNumbers for the squares built here.
kRookMagicNumbers ==
    [sq \in MagicSquares |->
        CASE sq = 8 -> B("0080010400860A02", "0000088000400121")
          [] sq = 27 -> B("A830100008000480", "5C30400000000020")
          [] sq = 40 -> B("000CA10000240004", "1000400840186000")]

kBishopMagicNumbers ==
    [sq \in MagicSquares |->
        CASE sq = 8 -> B("0800AF8102030000", "0680000002000388")
          [] sq = 27 -> B("00103040126E2283", "000002008420C3B0")
          [] sq = 40 -> B("C202408A6460000C", "0809031100000800")]

kKnightMagicNumbers ==
    [sq \in MagicSquares |->
        CASE sq = 8 -> B("00B9458428840314", "1000142420881020")
          [] sq = 27 -> B("12202062A4000000", "1060841010010000")
          [] sq = 40 -> B("000200190A241002", "1000600400001881")]

kKnightToMagicNumbers ==
    [sq \in MagicSquares |->
        CASE sq = 8 -> B("0800AF8102030000", "0680000002000388")
          [] sq = 27 -> B("00103040126E2283", "000002008420C3B0")
          [] sq = 40 -> B("2040012381001282", "04804080104A4000")]

\* The four tables of magic numbers as the source has them.
kMagicNumbers ==
    [pt \in {kRook, kBishop, kKnight, kKnightTo} |->
        CASE pt = kRook -> kRookMagicNumbers
          [] pt = kBishop -> kBishopMagicNumbers
          [] pt = kKnight -> kKnightMagicNumbers
          [] pt = kKnightTo -> kKnightToMagicNumbers]

\* magic_params[square].magic_number_ as InitializeMagicBitboards sets it
\* from the tables numbers: the cannon gets the number of the rook.
MagicNumber(numbers, pt, sq) ==
    numbers[IF pt = kCannon THEN kRook ELSE pt][sq]

RECURSIVE SumSeq(_)
SumSeq(s) == IF s = <<>> THEN 0 ELSE Head(s) + SumSeq(Tail(s))

\* Byte k of (m << i) mod 2^128.
ShiftedByte(m, i, k) ==
    LET src == k - (i \div 8)
        r == i % 8
    IN  (IF src >= 1 THEN (m[src] * 2^r) % 256 ELSE 0)
        + (IF src >= 2 THEN m[src - 1] \div 2^(8 - r) ELSE 0)

\* The carry into byte k when the columns col are added up.
RECURSIVE CarryInto(_, _)
CarryInto(col, k) ==
    IF k = 1 THEN 0 ELSE (col[k - 1] + CarryInto(col, k - 1)) \div 256

\* (b * m) mod 2^128 for the bitboard b: the sum of m << i over the squares
\* i of b.
Multiply(b, m) ==
    LET q == SetToSeq(b)
        col == [k \in 1..16 |->
                   SumSeq([j \in 1..Len(q) |-> ShiftedByte(m, q[j], k)])]
    IN  [k \in 1..16 |-> (col[k] + CarryInto(col, k)) % 256]

\* MagicParams::index without the cut of occupied to mask_.
MagicIndexUnmasked(occupied, mask, magic_number, shift_bits) ==
    LET p == Multiply(occupied, magic_number)
    IN  (p[16] * 256 + p[15]) \div 2^(shift_bits - 112)

\* MagicParams::index under NO_PEXT:
\* unsigned(((occupied & mask_) * magic_number_) >> shift_bits_).  A mask
\* has at most 16 squares, so shift_bits_ is at least 112 and the result
\* comes from the two highest bytes of the product.
MagicIndex(occupied, mask, magic_number, shift_bits) ==
    LET p == Multiply(occupied \cap mask, magic_number)
    IN  (p[16] * 256 + p[15]) \div 2^(shift_bits - 112)

\* _pext_u64 on the 64-bit words of b and m that start at bit low: the bits
\* of b at the places of the bits of m, packed from bit 0 on.
PextWord(b, m, low) ==
    LET word == {i \in m : i >= low /\ i < low + 64}
        q == SetToSeq(b \cap word)
    IN  SumSeq([j \in 1..Len(q) |->
                   2^Cardinality({i \in word : i < q[j]})])

\* MagicParams::index with PEXT: pext(occupied, mask_, shift_bits_), the
\* extraction of the high words shifted left by shift_bits_ and or-ed with
\* the extraction of the low words.  The low extraction has shift_bits_
\* bits, so the or is a sum.
PextIndex(occupied, mask, shift_bits) ==
    LET high == PextWord(occupied, mask, 64) * 2^shift_bits
        low == PextWord(occupied, mask, 0)
    IN  high + low

\* shift_bits_ as BuildAttacksTable sets it.
ShiftBits(no_pext, mask) ==
    IF no_pext THEN 128 - Cardinality(mask)
    ELSE Cardinality({i \in mask : i < 64})

\* m.index(occupied) of the build configuration.
Index(no_pext, occupied, mask, magic_number) ==
    IF no_pext
    THEN MagicIndex(occupied, mask, magic_number, ShiftBits(no_pext, mask))
    ELSE PextIndex(occupied, mask, ShiftBits(no_pext, mask))

\* The attack set BuildAttacksTable computes for the occupancy b.
TableAttacks(pt, sq, b) ==
    IF pt = kRook \/ pt = kCannon THEN SlidingAttack(pt, sq, b)
    ELSE LameLeaperAttack(pt, sq, b)

\* b = (b - mask_) & mask_: the next subset of mask, the subsets counted
\* through from the empty one as binary numbers, and the empty one again
\* after the full mask.
NextSubset(b, mask) ==
    LET free == mask \ b
    IN  IF free = {} THEN {}
        ELSE LET z == CHOOSE z \in free : \A y \in free : z <= y
             IN  {i \in b : i > z} \cup {z}

\* The number of subsets of mask the loop visits before b.
Ordinal(b, mask) ==
    LET q == SetToSeq(b \cap mask)
    IN  SumSeq([j \in 1..Len(q) |->
                   2^Cardinality({i \in mask : i < q[j]})])

\* The sanity check of the loop under NO_PEXT: the entry holds an attacks
\* bitboard other than 0 and other than the one to store.
InvalidMagic(stored, attacks) == stored # {} /\ stored # attacks

\* An attacks table is the function of the indexes written since it was
\* cleared; every other entry holds BitBoard(0).
ClearedTable == [i \in {} |-> {}]

TableEntry(t, index) == IF index \in DOMAIN t THEN t[index] ELSE {}

StoreEntry(t, index, attacks) ==
    [i \in DOMAIN t \cup {index} |-> IF i = index THEN attacks ELSE t[i]]

NoLookup == [pt |-> kKing, sq |-> 0, occupied |-> {}, attacks |-> {}]

\* The state InitializeMagicBitboards starts from: table is the place in
\* BuildOrder of the table being built, square the place of the square in
\* the loop over the squares, b and count the subset the loop is at and
\* the number of subsets it has stored for this square.
BuildStart(no_pext, numbers) ==
    [no_pext |-> no_pext,
     numbers |-> numbers,
     table |-> 1,
     square |-> 1,
     b |-> {},
     count |-> 0,
     attacks_table |->
        [pt \in Range(BuildOrder) |-> [sq \in MagicSquares |-> ClearedTable]],
     thrown |-> FALSE,
     lookup |-> NoLookup]

\* The tables of a history whose client never looks at them.
NotBuilt == BuildStart(TRUE, kMagicNumbers)

----------------------------------------------------------------------------
(* Move indices for the network (chess/bitboard.h, chess/bitboard.cc): a   *)
(* BoardSquare is its number row * 9 + col, a Move the packed value        *)
(* (from << 7) + to.                                                       *)

kIdxToMoveText == <<
    "a0a1", "a0a2", "a0a3", "a0a4", "a0a5", "a0a6", "a0a7", "a0a8", "a0a9", "a0b0", "a0b2", "a0c0", "a0c1", "a0d0", "a0e0",
    "a0f0", "a0g0", "a0h0", "a0i0", "a1a0", "a1a2", "a1a3", "a1a4", "a1a5", "a1a6", "a1a7", "a1a8", "a1a9", "a1b1", "a1b3",
    "a1c0", "a1c1", "a1c2", "a1d1", "a1e1", "a1f1", "a1g1", "a1h1", "a1i1", "a2a0", "a2a1", "a2a3", "a2a4", "a2a5", "a2a6",
    "a2a7", "a2a8", "a2a9", "a2b0", "a2b2", "a2b4", "a2c0", "a2c1", "a2c2", "a2c3", "a2c4", "a2d2", "a2e2", "a2f2", "a2g2",
    "a2h2", "a2i2", "a3a0", "a3a1", "a3a2", "a3a4", "a3a5", "a3a6", "a3a7", "a3a8", "a3a9", "a3b1", "a3b3", "a3b5", "a3c2",
    "a3c3", "a3c4", "a3d3", "a3e3", "a3f3", "a3g3", "a3h3", "a3i3", "a4a0", "a4a1", "a4a2", "a4a3", "a4a5", "a4a6", "a4a7",
    "a4a8", "a4a9", "a4b2", "a4b4", "a4b6", "a4c3", "a4c4", "a4c5", "a4d4", "a4e4", "a4f4", "a4g4", "a4h4", "a4i4", "a5a0",
    "a5a1", "a5a2", "a5a3", "a5a4", "a5a6", "a5a7", "a5a8", "a5a9", "a5b3", "a5b5", "a5b7", "a5c4", "a5c5", "a5c6", "a5d5",
    "a5e5", "a5f5", "a5g5", "a5h5", "a5i5", "a6a0", "a6a1", "a6a2", "a6a3", "a6a4", "a6a5", "a6a7", "a6a8", "a6a9", "a6b4",
    "a6b6", "a6b8", "a6c5", "a6c6", "a6c7", "a6d6", "a6e6", "a6f6", "a6g6", "a6h6", "a6i6", "a7a0", "a7a1", "a7a2", "a7a3",
    "a7a4", "a7a5", "a7a6", "a7a8", "a7a9", "a7b5", "a7b7", "a7b9", "a7c6", "a7c7", "a7c8", "a7d7", "a7e7", "a7f7", "a7g7",
    "a7h7", "a7i7", "a8a0", "a8a1", "a8a2", "a8a3", "a8a4", "a8a5", "a8a6", "a8a7", "a8a9", "a8b6", "a8b8", "a8c7", "a8c8",
    "a8c9", "a8d8", "a8e8", "a8f8", "a8g8", "a8h8", "a8i8", "a9a0", "a9a1", "a9a2", "a9a3", "a9a4", "a9a5", "a9a6", "a9a7",
    "a9a8", "a9b7", "a9b9", "a9c8", "a9c9", "a9d9", "a9e9", "a9f9", "a9g9", "a9h9", "a9i9", "b0a0", "b0a2", "b0b1", "b0b2",
    "b0b3", "b0b4", "b0b5", "b0b6", "b0b7", "b0b8", "b0b9", "b0c0", "b0c2", "b0d0", "b0d1", "b0e0", "b0f0", "b0g0", "b0h0",
    "b0i0", "b1a1", "b1a3", "b1b0", "b1b2", "b1b3", "b1b4", "b1b5", "b1b6", "b1b7", "b1b8", "b1b9", "b1c1", "b1c3", "b1d0",
    "b1d1", "b1d2", "b1e1", "b1f1", "b1g1", "b1h1", "b1i1", "b2a0", "b2a2", "b2a4", "b2b0", "b2b1", "b2b3", "b2b4", "b2b5",
    "b2b6", "b2b7", "b2b8", "b2b9", "b2c0", "b2c2", "b2c4", "b2d1", "b2d2", "b2d3", "b2e2", "b2f2", "b2g2", "b2h2", "b2i2",
    "b3a1", "b3a3", "b3a5", "b3b0", "b3b1", "b3b2", "b3b4", "b3b5", "b3b6", "b3b7", "b3b8", "b3b9", "b3c1", "b3c3", "b3c5",
    "b3d2", "b3d3", "b3d4", "b3e3", "b3f3", "b3g3", "b3h3", "b3i3", "b4a2", "b4a4", "b4a6", "b4b0", "b4b1", "b4b2", "b4b3",
    "b4b5", "b4b6", "b4b7", "b4b8", "b4b9", "b4c2", "b4c4", "b4c6", "b4d3", "b4d4", "b4d5", "b4e4", "b4f4", "b4g4", "b4h4",
    "b4i4", "b5a3", "b5a5", "b5a7", "b5b0", "b5b1", "b5b2", "b5b3", "b5b4", "b5b6", "b5b7", "b5b8", "b5b9", "b5c3", "b5c5",
    "b5c7", "b5d4", "b5d5", "b5d6", "b5e5", "b5f5", "b5g5", "b5h5", "b5i5", "b6a4", "b6a6", "b6a8", "b6b0", "b6b1", "b6b2",
    "b6b3", "b6b4", "b6b5", "b6b7", "b6b8", "b6b9", "b6c4", "b6c6", "b6c8", "b6d5", "b6d6", "b6d7", "b6e6", "b6f6", "b6g6",
    "b6h6", "b6i6", "b7a5", "b7a7", "b7a9", "b7b0", "b7b1", "b7b2", "b7b3", "b7b4", "b7b5", "b7b6", "b7b8", "b7b9", "b7c5",
    "b7c7", "b7c9", "b7d6", "b7d7", "b7d8", "b7e7", "b7f7", "b7g7", "b7h7", "b7i7", "b8a6", "b8a8", "b8b0", "b8b1", "b8b2",
    "b8b3", "b8b4", "b8b5", "b8b6", "b8b7", "b8b9", "b8c6", "b8c8", "b8d7", "b8d8", "b8d9", "b8e8", "b8f8", "b8g8", "b8h8",
    "b8i8", "b9a7", "b9a9", "b9b0", "b9b1", "b9b2", "b9b3", "b9b4", "b9b5", "b9b6", "b9b7", "b9b8", "b9c7", "b9c9", "b9d8",
    "b9d9", "b9e9", "b9f9", "b9g9", "b9h9", "b9i9", "c0a0", "c0a1", "c0a2", "c0b0", "c0b2", "c0c1", "c0c2", "c0c3", "c0c4",
    "c0c5", "c0c6", "c0c7", "c0c8", "c0c9", "c0d0", "c0d2", "c0e0", "c0e1", "c0e2", "c0f0", "c0g0", "c0h0", "c0i0", "c1a0",
    "c1a1", "c1a2", "c1b1", "c1b3", "c1c0", "c1c2", "c1c3", "c1c4", "c1c5", "c1c6", "c1c7", "c1c8", "c1c9", "c1d1", "c1d3",
    "c1e0", "c1e1", "c1e2", "c1f1", "c1g1", "c1h1", "c1i1", "c2a1", "c2a2", "c2a3", "c2b0", "c2b2", "c2b4", "c2c0", "c2c1",
    "c2c3", "c2c4", "c2c5", "c2c6", "c2c7", "c2c8", "c2c9", "c2d0", "c2d2", "c2d4", "c2e1", "c2e2", "c2e3", "c2f2", "c2g2",
    "c2h2", "c2i2", "c3a2", "c3a3", "c3a4", "c3b1", "c3b3", "c3b5", "c3c0", "c3c1", "c3c2", "c3c4", "c3c5", "c3c6", "c3c7",
    "c3c8", "c3c9", "c3d1", "c3d3", "c3d5", "c3e2", "c3e3", "c3e4", "c3f3", "c3g3", "c3h3", "c3i3", "c4a2", "c4a3", "c4a4",
    "c4a5", "c4b2", "c4b4", "c4b6", "c4c0", "c4c1", "c4c2", "c4c3", "c4c5", "c4c6", "c4c7", "c4c8", "c4c9", "c4d2", "c4d4",
    "c4d6", "c4e2", "c4e3", "c4e4", "c4e5", "c4f4", "c4g4", "c4h4", "c4i4", "c5a4", "c5a5", "c5a6", "c5b3", "c5b5", "c5b7",
    "c5c0", "c5c1", "c5c2", "c5c3", "c5c4", "c5c6", "c5c7", "c5c8", "c5c9", "c5d3", "c5d5", "c5d7", "c5e4", "c5e5", "c5e6",
    "c5f5", "c5g5", "c5h5", "c5i5", "c6a5", "c6a6", "c6a7", "c6b4", "c6b6", "c6b8", "c6c0", "c6c1", "c6c2", "c6c3", "c6c4",
    "c6c5", "c6c7", "c6c8", "c6c9", "c6d4", "c6d6", "c6d8", "c6e5", "c6e6", "c6e7", "c6f6", "c6g6", "c6h6", "c6i6", "c7a6",
    "c7a7", "c7a8", "c7b5", "c7b7", "c7b9", "c7c0", "c7c1", "c7c2", "c7c3", "c7c4", "c7c5", "c7c6", "c7c8", "c7c9", "c7d5",
    "c7d7", "c7d9", "c7e6", "c7e7", "c7e8", "c7f7", "c7g7", "c7h7", "c7i7", "c8a7", "c8a8", "c8a9", "c8b6", "c8b8", "c8c0",
    "c8c1", "c8c2", "c8c3", "c8c4", "c8c5", "c8c6", "c8c7", "c8c9", "c8d6", "c8d8", "c8e7", "c8e8", "c8e9", "c8f8", "c8g8",
    "c8h8", "c8i8", "c9a8", "c9a9", "c9b7", "c9b9", "c9c0", "c9c1", "c9c2", "c9c3", "c9c4", "c9c5", "c9c6", "c9c7", "c9c8",
    "c9d7", "c9d9", "c9e8", "c9e9", "c9f9", "c9g9", "c9h9", "c9i9", "d0a0", "d0b0", "d0b1", "d0c0", "d0c2", "d0d1", "d0d2",
    "d0d3", "d0d4", "d0d5", "d0d6", "d0d7", "d0d8", "d0d9", "d0e0", "d0e1", "d0e2", "d0f0", "d0f1", "d0g0", "d0h0", "d0i0",
    "d1a1", "d1b0", "d1b1", "d1b2", "d1c1", "d1c3", "d1d0", "d1d2", "d1d3", "d1d4", "d1d5", "d1d6", "d1d7", "d1d8", "d1d9",
    "d1e1", "d1e3", "d1f0", "d1f1", "d1f2", "d1g1", "d1h1", "d1i1", "d2a2", "d2b1", "d2b2", "d2b3", "d2c0", "d2c2", "d2c4",
    "d2d0", "d2d1", "d2d3", "d2d4", "d2d5", "d2d6", "d2d7", "d2d8", "d2d9", "d2e0", "d2e1", "d2e2", "d2e4", "d2f1", "d2f2",
    "d2f3", "d2g2", "d2h2", "d2i2", "d3a3", "d3b2", "d3b3", "d3b4", "d3c1", "d3c3", "d3c5", "d3d0", "d3d1", "d3d2", "d3d4",
    "d3d5", "d3d6", "d3d7", "d3d8", "d3d9", "d3e1", "d3e3", "d3e5", "d3f2", "d3f3", "d3f4", "d3g3", "d3h3", "d3i3", "d4a4",
    "d4b3", "d4b4", "d4b5", "d4c2", "d4c4", "d4c6", "d4d0", "d4d1", "d4d2", "d4d3", "d4d5", "d4d6", "d4d7", "d4d8", "d4d9",
    "d4e2", "d4e4", "d4e6", "d4f3", "d4f4", "d4f5", "d4g4", "d4h4", "d4i4", "d5a5", "d5b4", "d5b5", "d5b6", "d5c3", "d5c5",
    "d5c7", "d5d0", "d5d1", "d5d2", "d5d3", "d5d4", "d5d6", "d5d7", "d5d8", "d5d9", "d5e3", "d5e5", "d5e7", "d5f4", "d5f5",
    "d5f6", "d5g5", "d5h5", "d5i5", "d6a6", "d6b5", "d6b6", "d6b7", "d6c4", "d6c6", "d6c8", "d6d0", "d6d1", "d6d2", "d6d3",
    "d6d4", "d6d5", "d6d7", "d6d8", "d6d9", "d6e4", "d6e6", "d6e8", "d6f5", "d6f6", "d6f7", "d6g6", "d6h6", "d6i6", "d7a7",
    "d7b6", "d7b7", "d7b8", "d7c5", "d7c7", "d7c9", "d7d0", "d7d1", "d7d2", "d7d3", "d7d4", "d7d5", "d7d6", "d7d8", "d7d9",
    "d7e5", "d7e7", "d7e9", "d7f6", "d7f7", "d7f8", "d7g7", "d7h7", "d7i7", "d8a8", "d8b7", "d8b8", "d8b9", "d8c6", "d8c8",
    "d8d0", "d8d1", "d8d2", "d8d3", "d8d4", "d8d5", "d8d6", "d8d7", "d8d9", "d8e6", "d8e8", "d8f7", "d8f8", "d8f9", "d8g8",
    "d8h8", "d8i8", "d9a9", "d9b8", "d9b9", "d9c7", "d9c9", "d9d0", "d9d1", "d9d2", "d9d3", "d9d4", "d9d5", "d9d6", "d9d7",
    "d9d8", "d9e7", "d9e9", "d9f8", "d9f9", "d9g9", "d9h9", "d9i9", "e0a0", "e0b0", "e0c0", "e0c1", "e0d0", "e0d2", "e0e1",
    "e0e2", "e0e3", "e0e4", "e0e5", "e0e6", "e0e7", "e0e8", "e0e9", "e0f0", "e0f2", "e0g0", "e0g1", "e0h0", "e0i0", "e1a1",
    "e1b1", "e1c0", "e1c1", "e1c2", "e1d0", "e1d1", "e1d2", "e1d3", "e1e0", "e1e2", "e1e3", "e1e4", "e1e5", "e1e6", "e1e7",
    "e1e8", "e1e9", "e1f0", "e1f1", "e1f2", "e1f3", "e1g0", "e1g1", "e1g2", "e1h1", "e1i1", "e2a2", "e2b2", "e2c0", "e2c1",
    "e2c2", "e2c3", "e2c4", "e2d0", "e2d2", "e2d4", "e2e0", "e2e1", "e2e3", "e2e4", "e2e5", "e2e6", "e2e7", "e2e8", "e2e9",
    "e2f0", "e2f2", "e2f4", "e2g0", "e2g1", "e2g2", "e2g3", "e2g4", "e2h2", "e2i2", "e3a3", "e3b3", "e3c2", "e3c3", "e3c4",
    "e3d1", "e3d3", "e3d5", "e3e0", "e3e1", "e3e2", "e3e4", "e3e5", "e3e6", "e3e7", "e3e8", "e3e9", "e3f1", "e3f3", "e3f5",
    "e3g2", "e3g3", "e3g4", "e3h3", "e3i3", "e4a4", "e4b4", "e4c3", "e4c4", "e4c5", "e4d2", "e4d4", "e4d6", "e4e0", "e4e1",
    "e4e2", "e4e3", "e4e5", "e4e6", "e4e7", "e4e8", "e4e9", "e4f2", "e4f4", "e4f6", "e4g3", "e4g4", "e4g5", "e4h4", "e4i4",
    "e5a5", "e5b5", "e5c4", "e5c5", "e5c6", "e5d3", "e5d5", "e5d7", "e5e0", "e5e1", "e5e2", "e5e3", "e5e4", "e5e6", "e5e7",
    "e5e8", "e5e9", "e5f3", "e5f5", "e5f7", "e5g4", "e5g5", "e5g6", "e5h5", "e5i5", "e6a6", "e6b6", "e6c5", "e6c6", "e6c7",
    "e6d4", "e6d6", "e6d8", "e6e0", "e6e1", "e6e2", "e6e3", "e6e4", "e6e5", "e6e7", "e6e8", "e6e9", "e6f4", "e6f6", "e6f8",
    "e6g5", "e6g6", "e6g7", "e6h6", "e6i6", "e7a7", "e7b7", "e7c6", "e7c7", "e7c8", "e7d5", "e7d7", "e7d9", "e7e0", "e7e1",
    "e7e2", "e7e3", "e7e4", "e7e5", "e7e6", "e7e8", "e7e9", "e7f5", "e7f7", "e7f9", "e7g6", "e7g7", "e7g8", "e7h7", "e7i7",
    "e8a8", "e8b8", "e8c7", "e8c8", "e8c9", "e8d6", "e8d8", "e8e0", "e8e1", "e8e2", "e8e3", "e8e4", "e8e5", "e8e6", "e8e7",
    "e8e9", "e8f6", "e8f8", "e8g7", "e8g8", "e8g9", "e8h8", "e8i8", "e9a9", "e9b9", "e9c8", "e9c9", "e9d7", "e9d9", "e9e0",
    "e9e1", "e9e2", "e9e3", "e9e4", "e9e5", "e9e6", "e9e7", "e9e8", "e9f7", "e9f9", "e9g8", "e9g9", "e9h9", "e9i9", "f0a0",
    "f0b0", "f0c0", "f0d0", "f0d1", "f0e0", "f0e1", "f0e2", "f0f1", "f0f2", "f0f3", "f0f4", "f0f5", "f0f6", "f0f7", "f0f8",
    "f0f9", "f0g0", "f0g2", "f0h0", "f0h1", "f0i0", "f1a1", "f1b1", "f1c1", "f1d0", "f1d1", "f1d2", "f1e1", "f1e3", "f1f0",
    "f1f2", "f1f3", "f1f4", "f1f5", "f1f6", "f1f7", "f1f8", "f1f9", "f1g1", "f1g3", "f1h0", "f1h1", "f1h2", "f1i1", "f2a2",
    "f2b2", "f2c2", "f2d1", "f2d2", "f2d3", "f2e0", "f2e1", "f2e2", "f2e4", "f2f0", "f2f1", "f2f3", "f2f4", "f2f5", "f2f6",
    "f2f7", "f2f8", "f2f9", "f2g0", "f2g2", "f2g4", "f2h1", "f2h2", "f2h3", "f2i2", "f3a3", "f3b3", "f3c3", "f3d2", "f3d3",
    "f3d4", "f3e1", "f3e3", "f3e5", "f3f0", "f3f1", "f3f2", "f3f4", "f3f5", "f3f6", "f3f7", "f3f8", "f3f9", "f3g1", "f3g3",
    "f3g5", "f3h2", "f3h3", "f3h4", "f3i3", "f4a4", "f4b4", "f4c4", "f4d3", "f4d4", "f4d5", "f4e2", "f4e4", "f4e6", "f4f0",
    "f4f1", "f4f2", "f4f3", "f4f5", "f4f6", "f4f7", "f4f8", "f4f9", "f4g2", "f4g4", "f4g6", "f4h3", "f4h4", "f4h5", "f4i4",
    "f5a5", "f5b5", "f5c5", "f5d4", "f5d5", "f5d6", "f5e3", "f5e5", "f5e7", "f5f0", "f5f1", "f5f2", "f5f3", "f5f4", "f5f6",
    "f5f7", "f5f8", "f5f9", "f5g3", "f5g5", "f5g7", "f5h4", "f5h5", "f5h6", "f5i5", "f6a6", "f6b6", "f6c6", "f6d5", "f6d6",
    "f6d7", "f6e4", "f6e6", "f6e8", "f6f0", "f6f1", "f6f2", "f6f3", "f6f4", "f6f5", "f6f7", "f6f8", "f6f9", "f6g4", "f6g6",
    "f6g8", "f6h5", "f6h6", "f6h7", "f6i6", "f7a7", "f7b7", "f7c7", "f7d6", "f7d7", "f7d8", "f7e5", "f7e7", "f7e9", "f7f0",
    "f7f1", "f7f2", "f7f3", "f7f4", "f7f5", "f7f6", "f7f8", "f7f9", "f7g5", "f7g7", "f7g9", "f7h6", "f7h7", "f7h8", "f7i7",
    "f8a8", "f8b8", "f8c8", "f8d7", "f8d8", "f8d9", "f8e6", "f8e8", "f8f0", "f8f1", "f8f2", "f8f3", "f8f4", "f8f5", "f8f6",
    "f8f7", "f8f9", "f8g6", "f8g8", "f8h7", "f8h8", "f8h9", "f8i8", "f9a9", "f9b9", "f9c9", "f9d8", "f9d9", "f9e7", "f9e9",
    "f9f0", "f9f1", "f9f2", "f9f3", "f9f4", "f9f5", "f9f6", "f9f7", "f9f8", "f9g7", "f9g9", "f9h8", "f9h9", "f9i9", "g0a0",
    "g0b0", "g0c0", "g0d0", "g0e0", "g0e1", "g0e2", "g0f0", "g0f2", "g0g1", "g0g2", "g0g3", "g0g4", "g0g5", "g0g6", "g0g7",
    "g0g8", "g0g9", "g0h0", "g0h2", "g0i0", "g0i1", "g0i2", "g1a1", "g1b1", "g1c1", "g1d1", "g1e0", "g1e1", "g1e2", "g1f1",
    "g1f3", "g1g0", "g1g2", "g1g3", "g1g4", "g1g5", "g1g6", "g1g7", "g1g8", "g1g9", "g1h1", "g1h3", "g1i0", "g1i1", "g1i2",
    "g2a2", "g2b2", "g2c2", "g2d2", "g2e1", "g2e2", "g2e3", "g2f0", "g2f2", "g2f4", "g2g0", "g2g1", "g2g3", "g2g4", "g2g5",
    "g2g6", "g2g7", "g2g8", "g2g9", "g2h0", "g2h2", "g2h4", "g2i1", "g2i2", "g2i3", "g3a3", "g3b3", "g3c3", "g3d3", "g3e2",
    "g3e3", "g3e4", "g3f1", "g3f3", "g3f5", "g3g0", "g3g1", "g3g2", "g3g4", "g3g5", "g3g6", "g3g7", "g3g8", "g3g9", "g3h1",
    "g3h3", "g3h5", "g3i2", "g3i3", "g3i4", "g4a4", "g4b4", "g4c4", "g4d4", "g4e2", "g4e3", "g4e4", "g4e5", "g4f2", "g4f4",
    "g4f6", "g4g0", "g4g1", "g4g2", "g4g3", "g4g5", "g4g6", "g4g7", "g4g8", "g4g9", "g4h2", "g4h4", "g4h6", "g4i2", "g4i3",
    "g4i4", "g4i5", "g5a5", "g5b5", "g5c5", "g5d5", "g5e4", "g5e5", "g5e6", "g5f3", "g5f5", "g5f7", "g5g0", "g5g1", "g5g2",
    "g5g3", "g5g4", "g5g6", "g5g7", "g5g8", "g5g9", "g5h3", "g5h5", "g5h7", "g5i4", "g5i5", "g5i6", "g6a6", "g6b6", "g6c6",
    "g6d6", "g6e5", "g6e6", "g6e7", "g6f4", "g6f6", "g6f8", "g6g0", "g6g1", "g6g2", "g6g3", "g6g4", "g6g5", "g6g7", "g6g8",
    "g6g9", "g6h4", "g6h6", "g6h8", "g6i5", "g6i6", "g6i7", "g7a7", "g7b7", "g7c7", "g7d7", "g7e6", "g7e7", "g7e8", "g7f5",
    "g7f7", "g7f9", "g7g0", "g7g1", "g7g2", "g7g3", "g7g4", "g7g5", "g7g6", "g7g8", "g7g9", "g7h5", "g7h7", "g7h9", "g7i6",
    "g7i7", "g7i8", "g8a8", "g8b8", "g8c8", "g8d8", "g8e7", "g8e8", "g8e9", "g8f6", "g8f8", "g8g0", "g8g1", "g8g2", "g8g3",
    "g8g4", "g8g5", "g8g6", "g8g7", "g8g9", "g8h6", "g8h8", "g8i7", "g8i8", "g8i9", "g9a9", "g9b9", "g9c9", "g9d9", "g9e8",
    "g9e9", "g9f7", "g9f9", "g9g0", "g9g1", "g9g2", "g9g3", "g9g4", "g9g5", "g9g6", "g9g7", "g9g8", "g9h7", "g9h9", "g9i8",
    "g9i9", "h0a0", "h0b0", "h0c0", "h0d0", "h0e0", "h0f0", "h0f1", "h0g0", "h0g2", "h0h1", "h0h2", "h0h3", "h0h4", "h0h5",
    "h0h6", "h0h7", "h0h8", "h0h9", "h0i0", "h0i2", "h1a1", "h1b1", "h1c1", "h1d1", "h1e1", "h1f0", "h1f1", "h1f2", "h1g1",
    "h1g3", "h1h0", "h1h2", "h1h3", "h1h4", "h1h5", "h1h6", "h1h7", "h1h8", "h1h9", "h1i1", "h1i3", "h2a2", "h2b2", "h2c2",
    "h2d2", "h2e2", "h2f1", "h2f2", "h2f3", "h2g0", "h2g2", "h2g4", "h2h0", "h2h1", "h2h3", "h2h4", "h2h5", "h2h6", "h2h7",
    "h2h8", "h2h9", "h2i0", "h2i2", "h2i4", "h3a3", "h3b3", "h3c3", "h3d3", "h3e3", "h3f2", "h3f3", "h3f4", "h3g1", "h3g3",
    "h3g5", "h3h0", "h3h1", "h3h2", "h3h4", "h3h5", "h3h6", "h3h7", "h3h8", "h3h9", "h3i1", "h3i3", "h3i5", "h4a4", "h4b4",
    "h4c4", "h4d4", "h4e4", "h4f3", "h4f4", "h4f5", "h4g2", "h4g4", "h4g6", "h4h0", "h4h1", "h4h2", "h4h3", "h4h5", "h4h6",
    "h4h7", "h4h8", "h4h9", "h4i2", "h4i4", "h4i6", "h5a5", "h5b5", "h5c5", "h5d5", "h5e5", "h5f4", "h5f5", "h5f6", "h5g3",
    "h5g5", "h5g7", "h5h0", "h5h1", "h5h2", "h5h3", "h5h4", "h5h6", "h5h7", "h5h8", "h5h9", "h5i3", "h5i5", "h5i7", "h6a6",
    "h6b6", "h6c6", "h6d6", "h6e6", "h6f5", "h6f6", "h6f7", "h6g4", "h6g6", "h6g8", "h6h0", "h6h1", "h6h2", "h6h3", "h6h4",
    "h6h5", "h6h7", "h6h8", "h6h9", "h6i4", "h6i6", "h6i8", "h7a7", "h7b7", "h7c7", "h7d7", "h7e7", "h7f6", "h7f7", "h7f8",
    "h7g5", "h7g7", "h7g9", "h7h0", "h7h1", "h7h2", "h7h3", "h7h4", "h7h5", "h7h6", "h7h8", "h7h9", "h7i5", "h7i7", "h7i9",
    "h8a8", "h8b8", "h8c8", "h8d8", "h8e8", "h8f7", "h8f8", "h8f9", "h8g6", "h8g8", "h8h0", "h8h1", "h8h2", "h8h3", "h8h4",
    "h8h5", "h8h6", "h8h7", "h8h9", "h8i6", "h8i8", "h9a9", "h9b9", "h9c9", "h9d9", "h9e9", "h9f8", "h9f9", "h9g7", "h9g9",
    "h9h0", "h9h1", "h9h2", "h9h3", "h9h4", "h9h5", "h9h6", "h9h7", "h9h8", "h9i7", "h9i9", "i0a0", "i0b0", "i0c0", "i0d0",
    "i0e0", "i0f0", "i0g0", "i0g1", "i0h0", "i0h2", "i0i1", "i0i2", "i0i3", "i0i4", "i0i5", "i0i6", "i0i7", "i0i8", "i0i9",
    "i1a1", "i1b1", "i1c1", "i1d1", "i1e1", "i1f1", "i1g0", "i1g1", "i1g2", "i1h1", "i1h3", "i1i0", "i1i2", "i1i3", "i1i4",
    "i1i5", "i1i6", "i1i7", "i1i8", "i1i9", "i2a2", "i2b2", "i2c2", "i2d2", "i2e2", "i2f2", "i2g0", "i2g1", "i2g2", "i2g3",
    "i2g4", "i2h0", "i2h2", "i2h4", "i2i0", "i2i1", "i2i3", "i2i4", "i2i5", "i2i6", "i2i7", "i2i8", "i2i9", "i3a3", "i3b3",
    "i3c3", "i3d3", "i3e3", "i3f3", "i3g2", "i3g3", "i3g4", "i3h1", "i3h3", "i3h5", "i3i0", "i3i1", "i3i2", "i3i4", "i3i5",
    "i3i6", "i3i7", "i3i8", "i3i9", "i4a4", "i4b4", "i4c4", "i4d4", "i4e4", "i4f4", "i4g3", "i4g4", "i4g5", "i4h2", "i4h4",
    "i4h6", "i4i0", "i4i1", "i4i2", "i4i3", "i4i5", "i4i6", "i4i7", "i4i8", "i4i9", "i5a5", "i5b5", "i5c5", "i5d5", "i5e5",
    "i5f5", "i5g4", "i5g5", "i5g6", "i5h3", "i5h5", "i5h7", "i5i0", "i5i1", "i5i2", "i5i3", "i5i4", "i5i6", "i5i7", "i5i8",
    "i5i9", "i6a6", "i6b6", "i6c6", "i6d6", "i6e6", "i6f6", "i6g5", "i6g6", "i6g7", "i6h4", "i6h6", "i6h8", "i6i0", "i6i1",
    "i6i2", "i6i3", "i6i4", "i6i5", "i6i7", "i6i8", "i6i9", "i7a7", "i7b7", "i7c7", "i7d7", "i7e7", "i7f7", "i7g6", "i7g7",
    "i7g8", "i7h5", "i7h7", "i7h9", "i7i0", "i7i1", "i7i2", "i7i3", "i7i4", "i7i5", "i7i6", "i7i8", "i7i9", "i8a8", "i8b8",
    "i8c8", "i8d8", "i8e8", "i8f8", "i8g7", "i8g8", "i8g9", "i8h6", "i8h8", "i8i0", "i8i1", "i8i2", "i8i3", "i8i4", "i8i5",
    "i8i6", "i8i7", "i8i9", "i9a9", "i9b9", "i9c9", "i9d9", "i9e9", "i9f9", "i9g8", "i9g9", "i9h7", "i9h9", "i9i0", "i9i1",
    "i9i2", "i9i3", "i9i4", "i9i5", "i9i6", "i9i7", "i9i8">>

FileLetters == "abcdefghi"

\* BoardSquare(str): row str[1] - '0', col str[0] - 'a'.
BoardSquareFromString(str) ==
    DigitValue(CharAt(str, 2)) * 9
    + (CHOOSE c \in 1..9 : CharAt(FileLetters, c) = CharAt(str, 1)) - 1

\* Move(str): SetFrom(BoardSquare(str.substr(0, 2))), SetTo(BoardSquare(
\* str.substr(2, 2))).
MoveFromString(str) ==
    BoardSquareFromString(SubSeq(str, 1, 2)) * 128
    + BoardSquareFromString(SubSeq(str, 3, 4))

\* kIdxToMove: the moves of the table, kIdxToMove[i + 1] the one of index i.
kIdxToMove ==
    [i \in 1..Len(kIdxToMoveText) |-> MoveFromString(kIdxToMoveText[i])]

\* The writes of BuildMoveIndices: res[kIdxToMove[i].as_packed_int()] = i.
MoveIndexWrites == {<<kIdxToMove[i + 1], i>> : i \in 0..(Len(kIdxToMove) - 1)}

\* kMoveToIdx[packed]: the last index BuildMoveIndices wrote there, 0 where
\* it wrote none.
kMoveToIdx(packed) ==
    LET written == {w[2] : w \in {w \in MoveIndexWrites : w[1] = packed}}
    IN  IF written = {} THEN 0
        ELSE CHOOSE i \in written : \A j \in written : j <= i

NoTransform == 0

FlipTransform == 1

\* Transform(sq, transform) of bitboard.cc: the column flipped when the
\* FlipTransform bit is set.
Transform(sq, transform) ==
    IF (transform \div FlipTransform) % 2 # 0
    THEN (sq \div 9) * 9 + (8 - (sq % 9))
    ELSE sq

\* Move::as_nn_index(transform).
AsNNIndex(m, transform) ==
    IF transform = 0 THEN kMoveToIdx(m)
    ELSE kMoveToIdx(Transform(MoveFrom(m), transform) * 128
                    + Transform(MoveTo(m), transform))

\* MoveFromNNIndex without the transform undone.
MoveFromNNIndexUntransformed(idx, transform) == kIdxToMove[idx + 1]

\* MoveFromNNIndex(idx, transform).
MoveFromNNIndex(idx, transform) ==
    LET m == kIdxToMove[idx + 1]
    IN  IF transform = 0 THEN m
        ELSE Transform(MoveFrom(m), transform) * 128
             + Transform(MoveTo(m), transform)

\* No conversion asked for yet.
NoConversion == [transform |-> 0, trail |-> <<>>]

----------------------------------------------------------------------------
(* The histories explored: Reset on a start position, then Append of legal *)
(* moves between the squares of the start position's zone (given from     *)
(* white's side of the board).                                             *)

Scenarios ==
  <<
    \* a rook chasing a cannon (3k5/9/9/6c2/9/9/9/6R2/9/5K3 b)
    [pieces |-> <<<<84, 6, TRUE>>, <<60, 2, TRUE>>, <<24, 0, FALSE>>, <<5, 6, FALSE>>>>,
     black_to_move |-> TRUE, rule50_ply |-> 2, game_ply |-> 30,
     zone |-> {60, 61, 24, 25, 84, 85}],
    \* a rook chasing a cannon, colours swapped (3k5/9/7r1/9/9/9/9/6C2/9/5K3 b)
    [pieces |-> <<<<84, 6, TRUE>>, <<70, 0, TRUE>>, <<24, 2, FALSE>>, <<5, 6, FALSE>>>>,
     black_to_move |-> TRUE, rule50_ply |-> 2, game_ply |-> 30,
     zone |-> {70, 69, 24, 25}],
    \* a rook checking on every move (3k5/9/9/9/9/9/9/3R5/9/5K3 b)
    [pieces |-> <<<<84, 6, TRUE>>, <<21, 0, FALSE>>, <<5, 6, FALSE>>>>,
     black_to_move |-> TRUE, rule50_ply |-> 2, game_ply |-> 30,
     zone |-> {84, 85, 21, 22, 23}],
    \* a rook checking on every move, colours swapped (3k5/9/4r4/9/9/9/9/9/9/5K3 b)
    [pieces |-> <<<<84, 6, TRUE>>, <<67, 0, TRUE>>, <<5, 6, FALSE>>>>,
     black_to_move |-> TRUE, rule50_ply |-> 2, game_ply |-> 30,
     zone |-> {67, 68, 66, 5, 4}],
    \* two rooks shuffling (3k5/9/6r2/9/9/9/9/9/6R2/5K3 b)
    [pieces |-> <<<<84, 6, TRUE>>, <<69, 0, TRUE>>, <<15, 0, FALSE>>, <<5, 6, FALSE>>>>,
     black_to_move |-> TRUE, rule50_ply |-> 2, game_ply |-> 30,
     zone |-> {69, 70, 15, 16}],
    \* a repetition followed by a capture (3k5/9/9/6rC1/9/9/9/6R2/9/5K3 b)
    [pieces |-> <<<<84, 6, TRUE>>, <<60, 0, TRUE>>, <<61, 2, FALSE>>, <<24, 0, FALSE>>, <<5, 6, FALSE>>>>,
     black_to_move |-> TRUE, rule50_ply |-> 2, game_ply |-> 30,
     zone |-> {60, 59, 61, 24, 23, 25}],
    \* a mate at the no-progress limit (3k5/R8/9/9/9/9/9/7R1/9/4K4 w)
    [pieces |-> <<<<84, 6, TRUE>>, <<72, 0, FALSE>>, <<25, 0, FALSE>>, <<4, 6, FALSE>>>>,
     black_to_move |-> FALSE, rule50_ply |-> 119, game_ply |-> 200,
     zone |-> {25, 88, 79, 84}],
    \* a perpetual check reaching the no-progress limit (3k5/9/9/9/9/9/9/3R5/9/5K3 b)
    [pieces |-> <<<<84, 6, TRUE>>, <<21, 0, FALSE>>, <<5, 6, FALSE>>>>,
     black_to_move |-> TRUE, rule50_ply |-> 112, game_ply |-> 150,
     zone |-> {84, 85, 21, 22}],
    \* bare kings (3k5/9/9/9/9/9/9/9/9/5K3 w)
    [pieces |-> <<<<84, 6, TRUE>>, <<5, 6, FALSE>>>>,
     black_to_move |-> FALSE, rule50_ply |-> 0, game_ply |-> 0,
     zone |-> {84, 85, 5, 4}],
    \* a rook checking on every move, White to move first (3k5/9/9/9/9/9/9/4R4/9/5K3 w)
    [pieces |-> <<<<84, 6, TRUE>>, <<22, 0, FALSE>>, <<5, 6, FALSE>>>>,
     black_to_move |-> FALSE, rule50_ply |-> 0, game_ply |-> 0,
     zone |-> {84, 85, 21, 22}],
    \* a rook checking on every move, colours swapped, White to move first (3k5/9/5r3/9/9/9/9/9/9/5K3 w)
    [pieces |-> <<<<84, 6, TRUE>>, <<68, 0, TRUE>>, <<5, 6, FALSE>>>>,
     black_to_move |-> FALSE, rule50_ply |-> 0, game_ply |-> 0,
     zone |-> {67, 68, 5, 4}],
    \* a king capturing the piece that checks it (3k5/9/9/9/9/9/9/9/4r4/4K4 w)
    [pieces |-> <<<<84, 6, TRUE>>, <<13, 0, TRUE>>, <<4, 6, FALSE>>>>,
     black_to_move |-> FALSE, rule50_ply |-> 7, game_ply |-> 60,
     zone |-> {4, 13, 3, 84, 75}],
    \* a rook that may check on every move (3k5/9/9/9/9/9/9/4R4/9/5K3 w)
    [pieces |-> <<<<84, 6, TRUE>>, <<22, 0, FALSE>>, <<5, 6, FALSE>>>>,
     black_to_move |-> FALSE, rule50_ply |-> 0, game_ply |-> 0,
     zone |-> {84, 85, 21, 22, 23}],
    \* a rook checking on every move, colours swapped (3k5/9/4r4/9/9/9/9/9/9/5K3 b)
    [pieces |-> <<<<84, 6, TRUE>>, <<67, 0, TRUE>>, <<5, 6, FALSE>>>>,
     black_to_move |-> TRUE, rule50_ply |-> 3, game_ply |-> 41,
     zone |-> {67, 68, 5, 4}],
    \* a perpetual check near the no-progress limit (3k5/9/9/9/9/9/9/3R5/9/5K3 b)
    [pieces |-> <<<<84, 6, TRUE>>, <<21, 0, FALSE>>, <<5, 6, FALSE>>>>,
     black_to_move |-> TRUE, rule50_ply |-> 95, game_ply |-> 180,
     zone |-> {84, 85, 21, 22}],
    \* a rook attacking the king of the side that is not to move (3k5/9/9/9/9/9/9/9/9/3RK4 w)
    [pieces |-> <<<<84, 6, TRUE>>, <<3, 0, FALSE>>, <<4, 6, FALSE>>>>,
     black_to_move |-> FALSE, rule50_ply |-> 0, game_ply |-> 0,
     zone |-> {3, 48, 75, 84, 4, 13, 85, 76}],
    \* a cannon attacking the king of the side that is not to move (3k5/3r5/9/9/9/9/9/9/9/3CK4 w)
    [pieces |-> <<<<84, 6, TRUE>>, <<75, 0, TRUE>>, <<3, 2, FALSE>>, <<4, 6, FALSE>>>>,
     black_to_move |-> FALSE, rule50_ply |-> 0, game_ply |-> 0,
     zone |-> {3, 84, 75, 66, 4, 13, 76, 85}],
    \* a rook that can pass over the square its king was parsed on (5k3/9/9/9/9/9/9/9/9/3RK4 w)
    [pieces |-> <<<<86, 6, TRUE>>, <<3, 0, FALSE>>, <<4, 6, FALSE>>>>,
     black_to_move |-> FALSE, rule50_ply |-> 0, game_ply |-> 0,
     zone |-> {2, 3, 4, 12, 13, 86, 77, 68}],
    \* a knight that checks from behind a cannon's screen and a knight that
    \* answers by blocking (4k4/5n3/1c3NR2/9/9/9/9/9/9/3K5 w)
    [pieces |-> <<<<85, 6, TRUE>>, <<77, 4, TRUE>>, <<64, 2, TRUE>>,
                  <<68, 4, FALSE>>, <<69, 0, FALSE>>, <<3, 6, FALSE>>>>,
     black_to_move |-> FALSE, rule50_ply |-> 0, game_ply |-> 0,
     zone |-> {68, 51, 77, 58, 3, 12, 21, 85, 86}]
  >>

MainScenarios == 1 .. 12

\* The start positions of the long lines of checks.
StreakScenarios == 13 .. 15

\* The square of the unflipped board that the square s of board b is.
Unflipped(b, s) == IF b.flipped THEN SquareFlip(s) ELSE s

\* The legal moves of the last position that stay inside the zone.
OfferedMoves(ps, z) ==
    {m \in Range(GenerateLegalMoves(Last(ps).board)) :
        /\ Unflipped(Last(ps).board, MoveFrom(m)) \in z
        /\ Unflipped(Last(ps).board, MoveTo(m)) \in z}

\* PositionHistory::Reset on the start position of scenario i.
ResetTo(i) ==
    /\ positions = HistoryReset(SetFromFen(Scenarios[i].pieces,
                                           Scenarios[i].black_to_move),
                                Scenarios[i].rule50_ply,
                                Scenarios[i].game_ply)
    /\ zone = Scenarios[i].zone
    /\ moves = <<>>
    /\ nAppend = 0
    /\ nPop = 0
    /\ appendedTo = <<>>
    /\ undone = <<>>
    /\ fen = ""
    /\ parsed = NotParsed
    /\ emitted = NotEmitted
    /\ magics = NotBuilt
    /\ nn = NoConversion

Init == \E i \in MainScenarios : ResetTo(i)

\* PositionHistory::Append(m) on a history shorter than limit.
AppendMove(limit) ==
    /\ Len(positions) < limit
    /\ \E m \in OfferedMoves(positions, zone) :
          /\ positions' = HistoryAppend(positions, m)
          /\ moves' = Append(moves, m)
    /\ nAppend' = nAppend + 1
    /\ appendedTo' = positions
    /\ undone' = <<>>
    /\ UNCHANGED <<zone, nPop, fen, parsed, emitted, magics, nn>>

Next == AppendMove(MaxLen)

Spec == Init /\ [][Next]_vars

\* The long lines of checks.
InitStreak == \E i \in StreakScenarios : ResetTo(i)

NextStreak == AppendMove(MaxStreakLen)

SpecStreak == InitStreak /\ [][NextStreak]_vars

\* The start positions in which the side to move attacks the enemy king.
ExposedScenarios == 16 .. 17

\* The longest history explored by SpecExposed.
MaxExposedLen == 7

InitExposed == \E i \in ExposedScenarios : ResetTo(i)

NextExposed == AppendMove(MaxExposedLen)

SpecExposed == InitExposed /\ [][NextExposed]_vars

\* The start position in which a piece can pass over the square of its
\* king.
IdScenarios == {18}

InitIds == \E i \in IdScenarios : ResetTo(i)

NextIds == AppendMove(MaxLen)

SpecIds == InitIds /\ [][NextIds]_vars

\* The start position in which the last move of a cycle answers a check.
AnswerScenarios == {19}

InitAnswer == \E i \in AnswerScenarios : ResetTo(i)

NextAnswer == AppendMove(MaxLen)

SpecAnswer == InitAnswer /\ [][NextAnswer]_vars

\* The start positions of the histories that are also popped.
PopScenarios == {1, 3, 6}

\* PositionHistory::Pop(), called as its callers do while more than one
\* position is left.
PopLast ==
    /\ Len(positions) > 1
    /\ nPop < MaxPops
    /\ positions' = HistoryPop(positions)
    /\ moves' = SubSeq(moves, 1, Len(moves) - 1)
    /\ nPop' = nPop + 1
    /\ appendedTo' = <<>>
    /\ undone' = appendedTo
    /\ UNCHANGED <<zone, nAppend, fen, parsed, emitted, magics, nn>>

InitPop == \E i \in PopScenarios : ResetTo(i)

NextPop == AppendMove(MaxPopLen) \/ PopLast

SpecPop == InitPop /\ [][NextPop]_vars

----------------------------------------------------------------------------
(* The FEN texts explored: a text is parsed by SetFromFen, followed by     *)
(* PositionHistory::Reset as the callers do, or by Position::FromFen, and  *)
(* the position is serialised by GetFen or its board by BoardToFen.        *)

\* Board fields of ten ranks of nine columns.
FenBoards ==
    {"rnbakabnr/9/1c5c1/p1p1p1p1p/9/9/P1P1P1P1P/1C5C1/9/RNBAKABNR",
     "5a3/3k5/3aR4/9/5r3/5n3/9/3A1A3/5K3/2BC2B2",
     "CRN1k1b2/3ca4/4ba3/9/2nr5/9/9/4B4/4A4/4KA3",
     "4ka3/4a4/9/9/4N4/p8/9/4C3c/7n1/2BK5",
     "3k5/9/9/9/9/9/9/9/9/5K3",
     "3k5/4a4/9/9/9/9/9/5A3/4A4/2B2K3",
     "3k5/4a4/9/9/9/9/9/N4A3/4A2N1/2B2K3",
     "3k5/9/9/9/4p4/9/9/9/9/5K3",
     "3k5/9/9/p3R4/9/4p4/9/9/9/5K3",
     "5k3/9/9/9/4P4/9/P3r4/9/9/3K5",
     "3k5/9/9/9/9/9/9/9/9/3RK4"}

\* The fields after the board: side to move, "- -", clock, move number.
FenTails ==
    {" w - - 0 1", " b - - 0 1", " w - - 2 30", " b - - 2 30",
     " w - - 1 8", " b - - 119 2"}

\* Texts that stop after the board field or after the side to move, with
\* empty ranks, short ranks, fewer than ten ranks or spaces around.
FenPartial ==
    {"rnbakabnr//1c5c1/p1p1p1p1p///P1P1P1P1P/1C2K2C1",
     "    rnbakabnr//1c5c1/p1p1p1p1p///P1P1P1P1P/1C2K2C1    w   ",
     "rnbakabnr//1c5c1/p1p1p1p1p///P1P1P1P1P/1C2K2C1 b",
     "3k5/9/9",
     "  3k5/4R4  ",
     "3k5/9/9/9/9/9/9/9/9/5K3",
     "3k5/9/9/9/9/9/9/9/9/5K3 b",
     "3k1/4/9/9/9/9/9/9/9/5K w - - 3 4",
     "3k5/9/9/9/9/4P/9/9/5K3 b - - 0 7",
     "3k5/9/9/9/9/9/9/9/9/5K3 w - - 5"}

\* Texts with a misplaced piece, too many columns or ranks, or a fault
\* after the board field.
FenFaulty ==
    {"rnbakabnr/9/1c5c1/p1p1p1p1p/9/9/P2PP1P1P/1C5C1/9/RNBAKABNR w",
     "rrnbakabnr/9/1c5c1/p3p1p1p/3p5/9/P1P1P1P1P/1C5C1/9/RNBAKABNR w",
     "rnbakabnr/9/1c5c1/p1p1p1p1p/9/9/P1P1P1P1P/1C5C1/6A2/RNBAK1BNR w",
     "rnbakabnr/9/1c5c1/p1p1p1p1p/9/9/P1P1P1P1P/1C5C1/6B2/RNBAKA1NR w",
     "rnbakabnr/9/1c5c1/p1p1p1p1p/9/9/P1P1P1P1P/1C5C1/6K2/RNBA1ABNR w",
     "3k5/9/9/9/9/9/9/9/9/5K3R w - - 0 1",
     "3k5/9/9/9/9/9/9/9/9/8KR w - - 0 1",
     "3k5/9/9/9/9/9/9/9/9/5K4 w - - 0 1",
     "3k5/9/9/9/9/9/9/9/9/55K w - - 0 1",
     "3k5/9/9/9/9/9/9/9/9/5K3/ w - - 0 1",
     "3k5/9/9/9/9/9/9/9/9/9/5K3 w - - 0 1",
     "3k5/9/9/1p7/9/9/9/9/9/5K3 b - - 0 1",
     "3k5/9/9/9/9/9/1P7/9/9/5K3 w - - 0 1",
     "3k5/9/9/9/9/9/9/9/P8/5K3 w - - 0 1",
     "2k6/9/9/9/9/9/9/9/9/5K3 w - - 0 1",
     "3k5/9/9/9/a8/9/9/9/9/5K3 w - - 0 1",
     "3k5/9/1b7/9/9/9/9/9/9/5K3 w - - 0 1",
     "3k5/9/9/9/9/9/9/9/9/5K3 x - - 0 1",
     "3k5/9/9/9/9/9/9/9/9/5K3 w 0 1",
     "3k5/9/9/9/9/9/9/9/9/5K3 w - - x 1",
     "3k5/9/9/9/9/9/9/9/9/5K3 w - - 0 1 z",
     "3k5/9/9/9/4q4/9/9/9/9/5K3 w - - 0 1"}

FenInputs ==
    {board \o tail : board \in FenBoards, tail \in FenTails}
    \cup FenPartial \cup FenFaulty

InitFen ==
    /\ fen \in FenInputs
    /\ parsed = NotParsed
    /\ emitted = NotEmitted
    /\ magics = NotBuilt
    /\ nn = NoConversion
    /\ positions = <<>>
    /\ zone = {}
    /\ moves = <<>>
    /\ nAppend = 0
    /\ nPop = 0
    /\ appendedTo = <<>>
    /\ undone = <<>>

\* What a call of caller that ran SetFromFen with outcome p leaves behind.
Called(caller, p) ==
    [by |-> caller, error |-> p.error, board |-> p.board,
     rule50_ply |-> p.rule50_ply, moves |-> p.moves]

\* board.SetFromFen(fen, &rule50, &moves), then history.Reset(board, rule50,
\* 2 * moves - (board.flipped() ? 1 : 2)), unless SetFromFen throws.
SetFenAndReset ==
    /\ parsed.by = ""
    /\ \E p \in {SetFromFenText(fen)} :
          /\ parsed' = Called("SetFromFen", p)
          /\ positions' =
                IF p.error # "" THEN positions
                ELSE HistoryReset(p.board, p.rule50_ply,
                                  2 * p.moves
                                  - (IF p.board.flipped THEN 1 ELSE 2))
    /\ UNCHANGED <<fen, emitted, zone, moves, nAppend, nPop, appendedTo,
                   undone, magics, nn>>

\* Position::FromFen(fen): the position is the one of a history, unless
\* SetFromFen throws.
PositionFromFen ==
    /\ parsed.by = ""
    /\ \E p \in {SetFromFenText(fen)} :
          /\ parsed' = Called("FromFen", p)
          /\ positions' =
                IF p.error # "" THEN positions
                ELSE <<PositionFromBoard(p.board, p.rule50_ply, p.moves)>>
    /\ UNCHANGED <<fen, emitted, zone, moves, nAppend, nPop, appendedTo,
                   undone, magics, nn>>

\* GetFen(history.Last()).
EmitGetFen ==
    /\ positions # <<>>
    /\ emitted.by = ""
    /\ emitted' = [by |-> "GetFen", text |-> GetFen(Last(positions))]
    /\ UNCHANGED <<fen, parsed, positions, zone, moves, nAppend, nPop,
                   appendedTo, undone, magics, nn>>

\* BoardToFen(history.Last().GetBoard()), as DebugString calls it.
EmitBoardToFen ==
    /\ positions # <<>>
    /\ emitted.by = ""
    /\ emitted' =
          [by |-> "BoardToFen", text |-> BoardToFen(Last(positions).board)]
    /\ UNCHANGED <<fen, parsed, positions, zone, moves, nAppend, nPop,
                   appendedTo, undone, magics, nn>>

NextFen ==
    \/ SetFenAndReset
    \/ PositionFromFen
    \/ EmitGetFen
    \/ EmitBoardToFen

SpecFen == InitFen /\ [][NextFen]_vars

----------------------------------------------------------------------------
(* The table builds explored: InitializeMagicBitboards on the magic        *)
(* numbers of the source, or on tables in which one entry holds the number *)
(* of another entry of its table, then GetAttacks on the tables.           *)

\* The tables of the source with entry sq of table pt holding the number of
\* entry from.
Ported(pt, sq, from) ==
    [kMagicNumbers EXCEPT ![pt][sq] = kMagicNumbers[pt][from]]

PortedNumbers ==
    {Ported(pt, sq, from) :
        pt \in DOMAIN kMagicNumbers, sq \in MagicSquares, from \in MagicSquares}

\* The boards handed to GetAttacks: at most two pieces, anywhere.
Occupancies ==
    {{a, b} : a \in Squares, b \in Squares} \cup {{}}

MagicSquaresSeq == SetToSeq(MagicSquares)

InitMagic ==
    /\ magics \in {BuildStart(TRUE, n) : n \in PortedNumbers}
                  \cup {BuildStart(FALSE, kMagicNumbers)}
    /\ nn = NoConversion
    /\ fen = ""
    /\ parsed = NotParsed
    /\ emitted = NotEmitted
    /\ positions = <<>>
    /\ zone = {}
    /\ moves = <<>>
    /\ nAppend = 0
    /\ nPop = 0
    /\ appendedTo = <<>>
    /\ undone = <<>>

\* InitializeMagicBitboards has returned.
Built == magics.table > Len(BuildOrder) /\ ~magics.thrown

\* One turn of the do-while loop of BuildAttacksTable<pt> for the square it
\* is at: the index and the attacks of b, the sanity check, the store and
\* the step to the next subset, to the next square after the last subset
\* and to the next table after the last square.
BuildStep ==
    /\ magics.table <= Len(BuildOrder)
    /\ ~magics.thrown
    /\ LET pt == BuildOrder[magics.table]
           sq == MagicSquaresSeq[magics.square]
           mask == MaskTable[pt][sq]
           index == Index(magics.no_pext, magics.b, mask,
                          MagicNumber(magics.numbers, pt, sq))
           attacks == TableAttacks(pt, sq, magics.b)
           next == NextSubset(magics.b, mask)
           last == next = {} \/ magics.count + 1 >= MaxSubsets
           lastSquare == magics.square = Len(MagicSquaresSeq)
       IN  IF /\ magics.no_pext
              /\ InvalidMagic(TableEntry(magics.attacks_table[pt][sq], index),
                              attacks)
           THEN magics' = [magics EXCEPT !.thrown = TRUE]
           ELSE magics' =
                  [magics EXCEPT
                     !.attacks_table[pt][sq] = StoreEntry(@, index, attacks),
                     !.b = IF last THEN {} ELSE next,
                     !.count = IF last THEN 0 ELSE @ + 1,
                     !.square = IF ~last THEN @
                                ELSE IF lastSquare THEN 1 ELSE @ + 1,
                     !.table = IF last /\ lastSquare THEN @ + 1 ELSE @]
    /\ UNCHANGED <<fen, parsed, emitted, positions, zone, moves, nAppend,
                   nPop, appendedTo, undone, nn>>

\* The first GetAttacks<pt>(square, pieces) on the built tables, for a board
\* whose pieces on the mask make a subset the build has gone through.
CallGetAttacks ==
    /\ Built
    /\ magics.lookup = NoLookup
    /\ \E pt \in Range(BuildOrder), sq \in MagicSquares,
          occupied \in Occupancies :
          /\ Ordinal(occupied, MaskTable[pt][sq]) < MaxSubsets
          /\ magics' =
                [magics EXCEPT !.lookup =
                    [pt |-> pt, sq |-> sq, occupied |-> occupied,
                     attacks |->
                        TableEntry(magics.attacks_table[pt][sq],
                                   Index(magics.no_pext, occupied,
                                         MaskTable[pt][sq],
                                         MagicNumber(magics.numbers, pt,
                                                     sq)))]]
    /\ UNCHANGED <<fen, parsed, emitted, positions, zone, moves, nAppend,
                   nPop, appendedTo, undone, nn>>

NextMagic ==
    \/ BuildStep
    \/ CallGetAttacks

SpecMagic == InitMagic /\ [][NextMagic]_vars

----------------------------------------------------------------------------
(* The conversions explored: a move of the table or an index of the table  *)
(* and a transform, then as_nn_index and MoveFromNNIndex applied in turn   *)
(* until the value has gone there and back.                                *)

MaxTrail == 3

Transforms == {NoTransform, FlipTransform}

InitNN ==
    /\ \E t \in Transforms :
          \/ \E i \in 1..Len(kIdxToMove) :
                nn = [transform |-> t,
                      trail |-> <<[is_move |-> TRUE, value |-> kIdxToMove[i]]>>]
          \/ \E i \in 0..(Len(kIdxToMove) - 1) :
                nn = [transform |-> t,
                      trail |-> <<[is_move |-> FALSE, value |-> i]>>]
    /\ magics = NotBuilt
    /\ fen = ""
    /\ parsed = NotParsed
    /\ emitted = NotEmitted
    /\ positions = <<>>
    /\ zone = {}
    /\ moves = <<>>
    /\ nAppend = 0
    /\ nPop = 0
    /\ appendedTo = <<>>
    /\ undone = <<>>

\* m.as_nn_index(transform) called on the move last obtained.
CallAsNNIndex ==
    /\ Len(nn.trail) < MaxTrail
    /\ Last(nn.trail).is_move
    /\ nn' = [nn EXCEPT !.trail =
                 Append(@, [is_move |-> FALSE,
                            value |-> AsNNIndex(Last(nn.trail).value,
                                                 nn.transform)])]
    /\ UNCHANGED <<fen, parsed, emitted, magics, positions, zone, moves,
                   nAppend, nPop, appendedTo, undone>>

\* MoveFromNNIndex(idx, transform) called on the index last obtained.
CallMoveFromNNIndex ==
    /\ Len(nn.trail) < MaxTrail
    /\ ~Last(nn.trail).is_move
    /\ nn' = [nn EXCEPT !.trail =
                 Append(@, [is_move |-> TRUE,
                            value |-> MoveFromNNIndex(Last(nn.trail).value,
                                                       nn.transform)])]
    /\ UNCHANGED <<fen, parsed, emitted, magics, positions, zone, moves,
                   nAppend, nPop, appendedTo, undone>>

NextNN == CallAsNNIndex \/ CallMoveFromNNIndex

SpecNN == InitNN /\ [][NextNN]_vars

----------------------------------------------------------------------------
(* Repetition bookkeeping.                                                 *)

\* The history as it was when its k-th position had just been appended.
Prefix(k) == SubSeq(positions, 1, k)

\* The earlier positions of ps, an even number of plies before the last one,
\* whose board equals the last board and which a backward walk over the
\* same-side positions reaches before passing one whose no-progress counter
\* is below 2.
EqualEarlier(ps) ==
    LET n == Len(ps)
    IN  {i \in 1 .. n - 1 :
            /\ (n - i) % 2 = 0
            /\ ps[i].board = ps[n].board
            /\ \A j \in i + 1 .. n - 1 :
                  (n - j) % 2 = 0 => ps[j].rule50_ply >= 2}

\* The nearest of them.
NearestEqualEarlier(ps) ==
    CHOOSE i \in EqualEarlier(ps) : \A j \in EqualEarlier(ps) : j <= i

\* The repetition count and cycle length C1 states for the last position.
StatedRepetitions(ps) ==
    IF ps[Len(ps)].rule50_ply < 4 \/ EqualEarlier(ps) = {}
    THEN [repetitions |-> 0, cycle_length |-> 0]
    ELSE [repetitions |-> 1 + ps[NearestEqualEarlier(ps)].repetitions,
          cycle_length |-> Len(ps) - NearestEqualEarlier(ps)]

\* C1: every appended position holds 1 + the repetition count of the nearest
\* earlier same-side position with an equal board and the ply distance to it
\* as its cycle length, and 0 for both when its no-progress counter is below
\* 4 or the walk passes a counter below 2 first; a 4-move shuffle back to
\* the starting board counts 1 the first time and 2 the second time.
C1_RepetitionCount ==
    /\ \A k \in 2 .. Len(positions) :
          /\ positions[k].repetitions = StatedRepetitions(Prefix(k)).repetitions
          /\ positions[k].cycle_length = StatedRepetitions(Prefix(k)).cycle_length
    /\ (Len(positions) >= 5 /\ positions[5].board = positions[1].board)
          => positions[5].repetitions = 1
    /\ (/\ Len(positions) >= 9
        /\ positions[5].board = positions[1].board
        /\ positions[9].board = positions[1].board)
          => positions[9].repetitions = 2

\* A second return to the starting board, four plies after the first one.
C1_Witness ==
    /\ Len(positions) = 9
    /\ positions[5].board = positions[1].board
    /\ positions[9].board = positions[1].board
    /\ positions[5].repetitions = 1
    /\ positions[9].repetitions = 2
    /\ positions[9].cycle_length = 4

----------------------------------------------------------------------------
(* Game result.                                                            *)

\* The side to move in the last position has no legal move.
NoLegalMove == GenerateLegalMoves(Last(positions).board) = <<>>

\* The rule judge's verdict on the history, in absolute colours.
JudgeVerdict ==
    IF IsBlackToMove(Last(positions)) THEN RuleJudge(positions)
    ELSE Negate(RuleJudge(positions))

\* C2: ComputeGameResult decides by the first applicable rule, in this
\* order: no legal move (the side to move loses), repetition count >= 2
\* (the rule judge's verdict), no mating material (draw), no-progress
\* counter >= 120 (draw); otherwise the game is undecided.
C2_RuleOrder ==
    LET last == Last(positions)
        result == ComputeGameResult(positions)
    IN  /\ NoLegalMove =>
              result = (IF IsBlackToMove(last) THEN "WHITE_WON"
                        ELSE "BLACK_WON")
        /\ (~NoLegalMove /\ last.repetitions >= 2) => result = JudgeVerdict
        /\ (/\ ~NoLegalMove
            /\ last.repetitions < 2
            /\ ~HasMatingMaterial(last.board)) => result = "DRAW"
        /\ (/\ ~NoLegalMove
            /\ last.repetitions < 2
            /\ HasMatingMaterial(last.board)
            /\ last.rule50_ply >= kRule50Limit) => result = "DRAW"
        /\ (/\ ~NoLegalMove
            /\ last.repetitions < 2
            /\ HasMatingMaterial(last.board)
            /\ last.rule50_ply < kRule50Limit) => result = "UNDECIDED"

\* Black is mated by the move that brings the no-progress counter to 120.
C2_Witness ==
    /\ NoLegalMove
    /\ IsBlackToMove(Last(positions))
    /\ Last(positions).rule50_ply >= kRule50Limit
    /\ ComputeGameResult(positions) = "WHITE_WON"

----------------------------------------------------------------------------
(* Adjudication of repeated positions.                                     *)

\* The earlier same-side positions with the last board and repetition
\* count 0.
FirstOccurrences ==
    LET n == Len(positions)
    IN  {i \in 1 .. n - 1 :
            /\ (n - i) % 2 = 0
            /\ positions[i].board = positions[n].board
            /\ positions[i].repetitions = 0}

\* The start of the repeated cycle: the nearest of them.
CycleStart ==
    CHOOSE i \in FirstOccurrences : \A j \in FirstOccurrences : j <= i

\* The positions the moves of the repeated cycle led to.
CyclePositions == CycleStart + 1 .. Len(positions)

\* Every move of White (of Black) in the repeated cycle gave check.
WhiteCheckedThroughout ==
    \A k \in CyclePositions :
        IsBlackToMove(positions[k]) => IsUnderCheck(positions[k].board)

BlackCheckedThroughout ==
    \A k \in CyclePositions :
        ~IsBlackToMove(positions[k]) => IsUnderCheck(positions[k].board)

\* C3: when the last position has a legal move and repetition count >= 2
\* and exactly one side gave check with every move of the repeated cycle,
\* ComputeGameResult is the win of the other side in absolute colours,
\* whichever colour is to move.
C3_PerpetualCheckLoses ==
    (~NoLegalMove /\ Last(positions).repetitions >= 2) =>
        /\ FirstOccurrences # {}
        /\ (WhiteCheckedThroughout /\ ~BlackCheckedThroughout)
              => ComputeGameResult(positions) = "BLACK_WON"
        /\ (BlackCheckedThroughout /\ ~WhiteCheckedThroughout)
              => ComputeGameResult(positions) = "WHITE_WON"

\* White checked with every move of a cycle played twice and is to move.
C3_Witness ==
    /\ ~NoLegalMove
    /\ Last(positions).repetitions >= 2
    /\ ~IsBlackToMove(Last(positions))
    /\ FirstOccurrences # {}
    /\ WhiteCheckedThroughout
    /\ ~BlackCheckedThroughout
    /\ ComputeGameResult(positions) = "BLACK_WON"

\* The positions of the repeated cycle reached by a move of the side that
\* moved last (of the side that is to move).
MoverPositions ==
    {k \in CyclePositions : (Len(positions) - k) % 2 = 0}

OtherPositions ==
    {k \in CyclePositions : (Len(positions) - k) % 2 = 1}

\* The side that moved last (the side to move) gave check with every one of
\* its moves of the repeated cycle.
MoverCheckedThroughout ==
    \A k \in MoverPositions : IsUnderCheck(positions[k].board)

OtherCheckedThroughout ==
    \A k \in OtherPositions : IsUnderCheck(positions[k].board)

CreatedChase(k) == NewChase(positions, k - 1)

\* The ids every one of the moves into the positions of K chased anew,
\* none when a position from the cycle start to two plies before the last
\* position is in check.
ChasedThroughout(K) ==
    IF \E k \in CycleStart .. Len(positions) - 2 :
           IsUnderCheck(positions[k].board)
    THEN {}
    ELSE {id \in 0 .. 15 : \A k \in K : id \in CreatedChase(k)}

C6_JudgeTerminates ==
    Last(positions).repetitions >= 1 =>
        /\ Len(positions) >= 3
        /\ FirstOccurrences # {}
        /\ RuleJudge(positions) \in {"WHITE_WON", "BLACK_WON", "DRAW"}

\* A repetition whose cycle starts after the root of the history.
C6_Witness ==
    /\ Last(positions).repetitions >= 1
    /\ FirstOccurrences # {}
    /\ CycleStart > 1
    /\ RuleJudge(positions) \in {"WHITE_WON", "BLACK_WON", "DRAW"}

----------------------------------------------------------------------------
(* Repetition since the last zeroing move.                                 *)

\* A position with a repetition count above 0 and no position with a
\* no-progress counter of 0 after it.
RepeatedSinceZeroing ==
    \E i \in 1 .. Len(positions) :
        /\ positions[i].repetitions > 0
        /\ \A j \in i + 1 .. Len(positions) : positions[j].rule50_ply # 0

\* C7: DidRepeatSinceLastZeroingMove is true iff the backward walk meets a
\* repetition count above 0 no later than the first no-progress counter of
\* 0; a repetition before the most recent capture does not count, and a
\* history without a repetition gives false.
C7_DidRepeat ==
    /\ DidRepeatSinceLastZeroingMove(positions) = RepeatedSinceZeroing
    /\ (\A i \in 1 .. Len(positions) : positions[i].repetitions = 0)
          => ~DidRepeatSinceLastZeroingMove(positions)
    /\ (\E c \in 2 .. Len(positions) :
           /\ positions[c].rule50_ply = 0
           /\ \A i \in c .. Len(positions) : positions[i].repetitions = 0)
          => ~DidRepeatSinceLastZeroingMove(positions)

\* A capture played after a repetition.
C7_Witness ==
    /\ \E i \in 2 .. Len(positions) :
          /\ positions[i].repetitions > 0
          /\ \E c \in i + 1 .. Len(positions) : positions[c].rule50_ply = 0
    /\ ~DidRepeatSinceLastZeroingMove(positions)

----------------------------------------------------------------------------
(* The no-progress counter and the check counters.                         *)

\* The plies of the history: ply k leads from positions[k] to
\* positions[k + 1] by moves[k].
Plies == 1 .. Len(positions) - 1

\* The destination of ply k held a piece of the opponent.
IsCapture(k) == MoveTo(moves[k]) \in positions[k].board.their_pieces

\* The number of pieces on the board of positions[k].
PieceCount(k) == Cardinality(Occupied(positions[k].board))

\* C8: ApplyMove returns true iff the destination held an opponent piece; a
\* position derived by a capture has its no-progress counter and both check
\* counters at 0; a position derived by another move never has its
\* no-progress counter reset.
C8_CaptureZeroes ==
    \A k \in Plies :
        /\ ApplyMove(positions[k].board, moves[k]).zeroing = IsCapture(k)
        /\ IsCapture(k) = (PieceCount(k + 1) < PieceCount(k))
        /\ IsCapture(k) =>
              /\ positions[k + 1].rule50_ply = 0
              /\ positions[k + 1].us_check = 0
              /\ positions[k + 1].them_check = 0
        /\ ~IsCapture(k) =>
              /\ positions[k + 1].rule50_ply >= positions[k].rule50_ply
              /\ positions[k + 1].rule50_ply <= positions[k].rule50_ply + 1

\* A capture played with a no-progress counter and a check counter above 0.
C8_Witness ==
    \E k \in Plies :
        /\ IsCapture(k)
        /\ positions[k].rule50_ply > 0
        /\ positions[k].us_check + positions[k].them_check > 0
        /\ positions[k + 1].rule50_ply = 0
        /\ positions[k + 1].us_check = 0
        /\ positions[k + 1].them_check = 0

\* Ply k gives check (answers a check).
GivesCheck(k) == IsUnderCheck(positions[k + 1].board)

AnswersCheck(k) == IsUnderCheck(positions[k].board)

\* Ply k is a check that takes or keeps its mover's check counter above the
\* threshold.
CheckBeyondLimit(k) ==
    GivesCheck(k) /\ positions[k].us_check + 1 > kCheckLimit

\* Ply k is another move, answering a check of a side whose check counter is
\* above the threshold.
AnswerBeyondLimit(k) ==
    /\ ~CheckBeyondLimit(k)
    /\ AnswersCheck(k)
    /\ positions[k].them_check > kCheckLimit

----------------------------------------------------------------------------
(* Append and Pop.                                                         *)

RECURSIVE Replay(_, _)
\* The history obtained from ps by appending the moves of ms in order.
Replay(ps, ms) ==
    IF ms = <<>> THEN ps
    ELSE Replay(HistoryAppend(ps, Head(ms)), Tail(ms))

\* The history Reset builds for scenario i.
RootHistory(i) ==
    HistoryReset(SetFromFen(Scenarios[i].pieces, Scenarios[i].black_to_move),
                 Scenarios[i].rule50_ply, Scenarios[i].game_ply)

\* C10: after any interleaving of Append and Pop on a history set up by
\* Reset the stored sequence is the replay of the surviving moves from the
\* root: it holds 1 + Appends - Pops positions, each one ply later than and
\* with the other side to move than its predecessor, and an Append taken
\* back at once by Pop leaves the positions, with their repetition counts
\* and cycle lengths, as they were.
C10_AppendPop ==
    /\ Len(positions) = 1 + nAppend - nPop
    /\ Len(moves) = Len(positions) - 1
    /\ \A k \in Plies :
          /\ positions[k + 1].ply_count = positions[k].ply_count + 1
          /\ IsBlackToMove(positions[k + 1]) # IsBlackToMove(positions[k])
    /\ \E i \in PopScenarios : positions = Replay(RootHistory(i), moves)
    /\ undone # <<>> => positions = undone

\* An Append taken back at once by Pop on a history that ends in a repeated
\* position, after an earlier Pop.
C10_Witness ==
    /\ nPop = 2
    /\ undone # <<>>
    /\ positions = undone
    /\ Len(positions) >= 5
    /\ Last(positions).repetitions >= 1
    /\ Last(positions).cycle_length = 4

----------------------------------------------------------------------------
(* C11: the partition of the occupied squares.                             *)

\* The sets that have to partition the occupied squares of b.
PieceSets(b) ==
    <<b.rooks, b.advisors, b.cannons, b.pawns, b.knights, b.bishops,
      {b.our_king}, {b.their_king}>>

\* The piece sets of b are pairwise disjoint and cover exactly the occupied
\* squares, the two sides share no square, and each king stands on a square
\* of its own side only.
Partitioned(b) ==
    /\ \A i, j \in 1..8 : i < j => PieceSets(b)[i] \cap PieceSets(b)[j] = {}
    /\ UNION {PieceSets(b)[i] : i \in 1..8} = Occupied(b)
    /\ b.our_pieces \cap b.their_pieces = {}
    /\ b.our_king \in b.our_pieces \ b.their_pieces
    /\ b.their_king \in b.their_pieces \ b.our_pieces

\* C11: every board of a history that starts on a board with one king per
\* side and continues by legal moves (ApplyMove, then Mirror) is partitioned.
C11_BoardPartition ==
    Partitioned(positions[1].board)
    => \A k \in 1..Len(positions) : Partitioned(positions[k].board)

----------------------------------------------------------------------------
(* C12: the legal moves are the pseudo-legal moves that leave the mover's  *)
(* king safe.  Attacks are read off the board after the move, square by    *)
(* square, with no use of the attack tables.                               *)

\* Squares a and b are different squares of one file or of one rank.
Aligned(a, b) ==
    a # b /\ (FileOf(a) = FileOf(b) \/ RankOf(a) = RankOf(b))

\* The squares strictly between two aligned squares a and b.
Between(a, b) ==
    {s \in Squares :
        \/ /\ FileOf(a) = FileOf(b)
           /\ FileOf(s) = FileOf(a)
           /\ \/ RankOf(a) < RankOf(s) /\ RankOf(s) < RankOf(b)
              \/ RankOf(b) < RankOf(s) /\ RankOf(s) < RankOf(a)
        \/ /\ RankOf(a) = RankOf(b)
           /\ RankOf(s) = RankOf(a)
           /\ \/ FileOf(a) < FileOf(s) /\ FileOf(s) < FileOf(b)
              \/ FileOf(b) < FileOf(s) /\ FileOf(s) < FileOf(a)}

\* A knight on n reaches k: an L-shaped step whose leg square, next to the
\* knight in the long direction, is empty.
KnightReaches(n, k, occ) ==
    LET df == FileOf(k) - FileOf(n)
        dr == RankOf(k) - RankOf(n)
    IN  \/ /\ Abs(df) = 1 /\ Abs(dr) = 2
           /\ (RankOf(n) + dr \div 2) * kFileNB + FileOf(n) \notin occ
        \/ /\ Abs(df) = 2 /\ Abs(dr) = 1
           /\ RankOf(n) * kFileNB + FileOf(n) + df \div 2 \notin occ

\* A pawn of the side that moves down the board, standing on p, reaches k:
\* one step down, or one step sideways once it stands below the river.
TheirPawnReaches(p, k) ==
    \/ FileOf(k) = FileOf(p) /\ RankOf(k) = RankOf(p) - 1
    \/ /\ RankOf(p) <= 4
       /\ RankOf(k) = RankOf(p)
       /\ Abs(FileOf(k) - FileOf(p)) = 1

\* On board nb the king of the side that has just moved (our side: the board
\* is not mirrored yet) is attacked by an enemy rook, cannon, pawn or
\* knight.
KingAttacked(nb) ==
    LET k == nb.our_king
        occ == Occupied(nb)
    IN  \/ \E r \in nb.rooks \cap nb.their_pieces :
              Aligned(r, k) /\ Between(r, k) \cap occ = {}
        \/ \E c \in nb.cannons \cap nb.their_pieces :
              Aligned(c, k) /\ Cardinality(Between(c, k) \cap occ) = 1
        \/ \E p \in nb.pawns \cap nb.their_pieces : TheirPawnReaches(p, k)
        \/ \E n \in nb.knights \cap nb.their_pieces :
              KnightReaches(n, k, occ)

\* On board nb the two kings stand on one file with no piece between them.
KingsFacing(nb) ==
    /\ FileOf(nb.our_king) = FileOf(nb.their_king)
    /\ Between(nb.our_king, nb.their_king) \cap Occupied(nb) = {}

\* Move m of board b leaves the mover's king safe.
LeavesKingSafe(b, m) ==
    LET After(nb) == ~KingAttacked(nb) /\ ~KingsFacing(nb)
    IN  After(ApplyMove(b, m).board)

\* C12: on the board of the last position, a pseudo-legal move is returned
\* by GenerateLegalMoves if and only if, on the board obtained by applying
\* it, the mover's king is attacked by no enemy rook, cannon, pawn or knight
\* and the two kings do not face each other on an open file; every move
\* GenerateLegalMoves returns, a king move or not, has that property.
C12_LegalIffKingSafe ==
    LET b == Last(positions).board
        legal == Range(GenerateLegalMoves(b))
    IN  /\ \A m \in legal : LeavesKingSafe(b, m)
        /\ \A m \in Range(GeneratePseudolegalMoves(b)) :
              LeavesKingSafe(b, m) => m \in legal

\* A board with a king move and a non-king move that are legal, a king move
\* refused because the king would be attacked, and a non-king move refused
\* because it leaves the king attacked.
C12_Witness ==
    LET b == Last(positions).board
        legal == Range(GenerateLegalMoves(b))
        refused == Range(GeneratePseudolegalMoves(b)) \ legal
    IN  /\ \E m \in legal : MoveFrom(m) = b.our_king
        /\ \E m \in legal : MoveFrom(m) # b.our_king
        /\ \E m \in refused :
              MoveFrom(m) = b.our_king /\ KingAttacked(ApplyMove(b, m).board)
        /\ \E m \in refused :
              MoveFrom(m) # b.our_king /\ KingAttacked(ApplyMove(b, m).board)

----------------------------------------------------------------------------
(* C13: the legal moves are the pseudo-legal moves that IsLegalMove        *)
(* accepts, in the order of the pseudo-legal moves.                        *)

\* Move s[i] comes before s[j], for i < j, in the order "source square, then
\* destination square", and no move occurs twice.
InGenerationOrder(s) ==
    \A i, j \in 1..Len(s) :
        i < j => \/ MoveFrom(s[i]) < MoveFrom(s[j])
                 \/ MoveFrom(s[i]) = MoveFrom(s[j]) /\ MoveTo(s[i]) < MoveTo(s[j])

\* Sequence sub is what is left of sequence s when the elements at some
\* indices are dropped.
RECURSIVE IsSubsequence(_, _)
IsSubsequence(sub, s) ==
    IF sub = <<>> THEN TRUE
    ELSE IF s = <<>> THEN FALSE
    ELSE IF Head(sub) = Head(s) THEN IsSubsequence(Tail(sub), Tail(s))
    ELSE IsSubsequence(sub, Tail(s))

\* C13: on the board of the last position the pseudo-legal moves come by
\* increasing source square of an own piece and, for one source, by
\* increasing destination square; GenerateLegalMoves returns a subsequence
\* of them, with no move twice, that holds exactly the moves IsLegalMove
\* accepts.
C13_LegalMovesFiltered ==
    LET pseudo == GeneratePseudolegalMoves(Last(positions).board)
        legal == GenerateLegalMoves(Last(positions).board)
    IN  /\ InGenerationOrder(pseudo)
        /\ \A i \in 1..Len(pseudo) :
              MoveFrom(pseudo[i]) \in Last(positions).board.our_pieces
        /\ IsSubsequence(legal, pseudo)
        /\ InGenerationOrder(legal)
        /\ Range(legal)
           = {m \in Range(pseudo) : IsLegalMove(Last(positions).board, m, TRUE)}

\* A board with legal moves of three pieces or more, and with a refused
\* move between two legal moves in the list of pseudo-legal moves.
C13_Witness ==
    LET pseudo == GeneratePseudolegalMoves(Last(positions).board)
        legal == Range(GenerateLegalMoves(Last(positions).board))
    IN  /\ Cardinality({MoveFrom(m) : m \in legal}) >= 3
        /\ \E i, j, k \in 1..Len(pseudo) :
              /\ i < j /\ j < k
              /\ pseudo[i] \in legal
              /\ pseudo[j] \notin legal
              /\ pseudo[k] \in legal

----------------------------------------------------------------------------
(* C14: a full FEN text survives the way to a Position and back.           *)

\* The full FEN texts: a board of ten ranks of nine columns, the side to
\* move, "- -", the no-progress count and the full-move number.
FullFens == {board \o tail : board \in FenBoards, tail \in FenTails}

\* The round trip through SetFromFen and PositionHistory::Reset alone.
ResetPathRoundTrip ==
    (fen \in FullFens /\ parsed.by = "SetFromFen" /\ emitted.by = "GetFen")
    => emitted.text = fen

\* C14: GetFen of the Position built from a full FEN text, by SetFromFen and
\* Reset or by Position::FromFen, is that text.
C14_FenRoundTrip ==
    (fen \in FullFens /\ parsed.by # "" /\ emitted.by = "GetFen")
    => emitted.text = fen

----------------------------------------------------------------------------
(* C15 to C17: what SetFromFen refuses and what it accepts.  The board     *)
(* field is read here position by position, by counting, with no use of   *)
(* the parser.                                                             *)

\* The positions (from 1) of the characters of the board field of f: from
\* the first character that is no space to the last before the next space.
BoardField(f) ==
    {i \in 1..Len(f) :
        /\ CharAt(f, i) # " "
        /\ \A j \in 1..(i - 1) :
              CharAt(f, j) = " " => \A k \in 1..j : CharAt(f, k) = " "}

\* The board field of f has a character at all, and only digits, piece
\* letters and "/".
WellFormedField(f) ==
    /\ BoardField(f) # {}
    /\ \A i \in BoardField(f) :
          \/ CharAt(f, i) = "/"
          \/ IsDigit(CharAt(f, i))
          \/ PieceTypeParse(CharAt(f, i)) # 7

\* The number of "/" of the board field before position i.
SeparatorsBefore(f, i) ==
    Cardinality({j \in BoardField(f) : j < i /\ CharAt(f, j) = "/"})

\* The columns that the characters of positions from..to take: its value
\* for a digit, one for a piece letter.
RECURSIVE Columns(_, _, _)
Columns(f, from, to) ==
    IF to < from THEN 0
    ELSE Columns(f, from, to - 1)
         + (IF IsDigit(CharAt(f, to)) THEN DigitValue(CharAt(f, to)) ELSE 1)

\* The position of the first character of the rank that position i is in.
RankStart(f, i) ==
    CHOOSE j \in BoardField(f) :
        /\ j <= i
        /\ \A k \in j..(i - 1) : CharAt(f, k) # "/"
        /\ (j - 1) \in BoardField(f) => CharAt(f, j - 1) = "/"

\* The rank and the file that the piece letter at position i is written on.
RankAt(f, i) == 9 - SeparatorsBefore(f, i)

FileAt(f, i) == Columns(f, RankStart(f, i), i - 1)

\* The squares of the two palaces, of the bishops, and of the pawns of the
\* side whose letters are upper case (it moves up the board) or lower case.
InPalace(file, rank) == file \in 3..5 /\ (rank <= 2 \/ rank >= 7)

BishopSquare(file, rank) ==
    <<file, rank>> \in
        {<<2, 0>>, <<6, 0>>, <<0, 2>>, <<4, 2>>, <<8, 2>>, <<2, 4>>, <<6, 4>>,
         <<2, 9>>, <<6, 9>>, <<0, 7>>, <<4, 7>>, <<8, 7>>, <<2, 5>>, <<6, 5>>}

PawnSquare(lower, file, rank) ==
    IF lower THEN rank <= 4 \/ (rank <= 6 /\ file % 2 = 0)
    ELSE rank >= 5 \/ (rank >= 3 /\ file % 2 = 0)

\* The piece letter at position i of f stands where its kind may not: an
\* advisor or a king outside the palaces, a bishop off the bishop squares,
\* a pawn off the squares of its colour, or any piece beyond file i.
MisplacedAt(f, i) ==
    LET Where(c, kind, file, rank) ==
            /\ kind # 7
            /\ rank >= 0
            /\ \/ file >= 9
               \/ kind \in {kAdvisor, kKing} /\ ~InPalace(file, rank)
               \/ kind = kBishop /\ ~BishopSquare(file, rank)
               \/ kind = kPawn /\ ~PawnSquare(IsLower(c), file, rank)
    IN  Where(CharAt(f, i), PieceTypeParse(CharAt(f, i)), FileAt(f, i),
              RankAt(f, i))

Misplaced(f) == \E i \in BoardField(f) : MisplacedAt(f, i)

\* C15: SetFromFen throws for every text whose board field places an
\* advisor or a king outside the palace, a bishop off the bishop squares, a
\* pawn off the squares of its colour, or a piece beyond file i.
C15_MisplacedRejected ==
    (parsed.by # "" /\ Misplaced(fen)) => parsed.error # ""

\* SetFromFen has refused a text for a piece beyond file i.
C15_Witness ==
    /\ parsed.by = "SetFromFen"
    /\ Misplaced(fen)
    /\ parsed.error = "piece out of board"

\* The positions that bound the ranks of the board field of f, in order: the
\* position before the field, the "/" of the field, the position after it.
RankBounds(f) ==
    LET First(field) == CHOOSE i \in field : \A j \in field : i <= j
        Final(field) == CHOOSE i \in field : \A j \in field : j <= i
        Of(field) ==
            IF field = {} THEN <<0, 1>>
            ELSE SetToSeq({i \in field : CharAt(f, i) = "/"}
                          \cup {First(field) - 1, Final(field) + 1})
    IN  Of(BoardField(f))

\* The number of ranks the board field of f is written in.
RankCount(f) == Len(RankBounds(f)) - 1

\* The columns of the k-th rank written (k = 1 is rank 9).
RankColumns(f, k) ==
    Columns(f, RankBounds(f)[k] + 1, RankBounds(f)[k + 1] - 1)

\* The board field of f describes ten ranks of nine columns each.
TenByNine(f) ==
    /\ RankCount(f) = 10
    /\ \A k \in 1..RankCount(f) : RankColumns(f, k) = 9

\* The board field of f has more than ten ranks, or a rank of more than
\* nine columns.
Overfull(f) ==
    \/ RankCount(f) > 10
    \/ \E k \in 1..RankCount(f) : RankColumns(f, k) > 9

\* Text f holds nothing but its board field and spaces.
BoardOnly(f) == \A i \in (1..Len(f)) \ BoardField(f) : CharAt(f, i) = " "

\* C16 as stated: SetFromFen throws for every text whose board field is not
\* ten ranks of nine columns each.
C16_ExactBoardRequired ==
    (parsed.by # "" /\ ~TenByNine(fen)) => parsed.error # ""

\* C16, amended: SetFromFen throws for every text whose board field has more
\* than ten ranks or a rank of more than nine columns; a text that is only
\* a well-formed board field with no misplaced piece is accepted however
\* few ranks or columns it has.
C16_OverfullRejected ==
    /\ (parsed.by # "" /\ Overfull(fen)) => parsed.error # ""
    /\ (/\ parsed.by # ""
        /\ BoardOnly(fen)
        /\ WellFormedField(fen)
        /\ ~Overfull(fen)
        /\ ~Misplaced(fen)) => parsed.error = ""

\* SetFromFen has refused a text for an eleventh rank.
C16_Witness ==
    /\ parsed.by = "SetFromFen"
    /\ RankCount(fen) > 10
    /\ parsed.error = "too many ranks"

\* Text f is a board field, spaces around it allowed, and after it at most
\* the side to move.
PartialText(f) ==
    LET Rest(after) ==
            \/ after = {}
            \/ \E i \in after :
                  /\ after = {i}
                  /\ CharAt(f, i) \in {"w", "b", "W", "B"}
    IN  Rest({i \in (1..Len(f)) \ BoardField(f) : CharAt(f, i) # " "})

\* Board b, seen from the side of the upper-case pieces, has a piece of the
\* given kind and case on the square (file, rank).
PieceOn(b, kind, lower, file, rank) ==
    LET On(sq) ==
            /\ sq \in (IF lower THEN b.their_pieces ELSE b.our_pieces)
            /\ sq \notin (IF lower THEN b.our_pieces ELSE b.their_pieces)
            /\ \A k \in 0..5 : (sq \in PieceSets(b)[k + 1]) <=> (k = kind)
            /\ kind = kKing
               => sq = (IF lower THEN b.their_king ELSE b.our_king)
    IN  On(rank * 9 + file)

\* Board b holds the pieces that the board field of f lists, each on the
\* rank (counted down from 9) and the file it is written on, and no other.
PlacedAsListed(f, b) ==
    LET Letters == {i \in BoardField(f) : PieceTypeParse(CharAt(f, i)) # 7}
    IN  /\ \A i \in Letters :
              PieceOn(b, PieceTypeParse(CharAt(f, i)), IsLower(CharAt(f, i)),
                      FileAt(f, i), RankAt(f, i))
        /\ Cardinality(Occupied(b)) = Cardinality(Letters)

\* C17: SetFromFen accepts a text that is only a well-formed board field
\* with no overfull rank and no misplaced piece, with spaces around it and
\* the side to move after it or without, be its ranks empty, short or fewer
\* than ten; the board then holds the listed pieces from rank 9 downward,
\* rule50_ply is 0 and moves is 1.
C17_PartialFenAccepted ==
    (/\ parsed.by = "SetFromFen"
     /\ PartialText(fen)
     /\ WellFormedField(fen)
     /\ ~Overfull(fen)
     /\ ~Misplaced(fen))
    => /\ parsed.error = ""
       /\ parsed.rule50_ply = 0
       /\ parsed.moves = 1
       /\ PlacedAsListed(fen, IF parsed.board.flipped
                              THEN Mirror(parsed.board) ELSE parsed.board)

\* SetFromFen has accepted a text with spaces before and after a board field
\* of fewer than ten ranks, some of them empty, and the side to move.
C17_Witness ==
    /\ parsed.by = "SetFromFen"
    /\ parsed.error = ""
    /\ PartialText(fen)
    /\ ~BoardOnly(fen)
    /\ CharAt(fen, 1) = " "
    /\ RankCount(fen) < 10
    /\ \E k \in 1..RankCount(fen) : RankColumns(fen, k) = 0
    /\ Cardinality(Occupied(parsed.board)) > 20

----------------------------------------------------------------------------
(* C18: the ranks in the text of a serialised board.                       *)

\* Boards a and b have the same pieces of the same sides on the same
\* squares, and the same side to move.
SamePlacement(a, b) ==
    /\ \A i \in 1..6 : PieceSets(a)[i] = PieceSets(b)[i]
    /\ a.our_pieces = b.our_pieces
    /\ a.their_pieces = b.their_pieces
    /\ a.our_king = b.our_king
    /\ a.their_king = b.their_king
    /\ a.flipped = b.flipped

\* Text t writes ten ranks of nine columns, a "/" between two consecutive
\* ranks and none after the last, and SetFromFen reads from it the piece
\* placement of board b.
RanksSeparated(t, b) ==
    LET Read(p) == p.error = "" /\ SamePlacement(p.board, b)
    IN  /\ TenByNine(t)
        /\ Cardinality({i \in BoardField(t) : CharAt(t, i) = "/"}) = 9
        /\ Read(SetFromFenText(t))

\* What C18 says of GetFen alone.
GetFenRanksSeparated ==
    emitted.by = "GetFen"
    => RanksSeparated(emitted.text, Last(positions).board)

\* C18: the text that GetFen or BoardToFen returns for a board writes its
\* ten ranks from rank 9 down to rank 0 with one "/" between two consecutive
\* ranks and none after rank 0, and SetFromFen reads the same piece
\* placement from it.
C18_RanksSeparated ==
    emitted.by # ""
    => RanksSeparated(emitted.text, Last(positions).board)

----------------------------------------------------------------------------
(* C19: colliding subsets with different attacks stop the build.           *)

\* The subsets of mask the loop of BuildAttacksTable goes through, k of
\* them from b on.
RECURSIVE Visited(_, _, _)
Visited(mask, b, k) ==
    IF k = 0 THEN {}
    ELSE {b} \cup (IF NextSubset(b, mask) = {} THEN {}
                   ELSE Visited(mask, NextSubset(b, mask), k - 1))

\* Two subsets the loop went through for sq have the same index and
\* different attacks.
Collision(numbers, pt, sq) ==
    LET mask == MaskTable[pt][sq]
        rows == {<<Index(TRUE, b, mask, MagicNumber(numbers, pt, sq)),
                   TableAttacks(pt, sq, b)>> :
                 b \in Visited(mask, {}, MaxSubsets)}
    IN  \E r1 \in rows, r2 \in rows : r1[1] = r2[1] /\ r1[2] # r2[2]

\* BuildAttacksTable<pt> has just returned.
Returned(pt) ==
    /\ ~magics.thrown
    /\ magics.lookup = NoLookup
    /\ magics.table > 1
    /\ BuildOrder[magics.table - 1] = pt
    /\ magics.square = 1
    /\ magics.count = 0

\* C19: in the magic-multiplication build, BuildAttacksTable never returns
\* from a table in which, for some square, two occupancy subsets of the
\* relevant mask have the same index and different attack sets: it throws,
\* whatever the two attack sets are and whichever subset the loop reaches
\* first.
C19_CollisionThrows ==
    magics.no_pext =>
        \A pt \in Range(BuildOrder), sq \in MagicSquares :
            Returned(pt) => ~Collision(magics.numbers, pt, sq)

----------------------------------------------------------------------------
(* C20: the table lookup returns the attack set of the walk on the board.  *)

----------------------------------------------------------------------------
(* C21: mirroring is an involution.                                        *)

\* The bitboards of the board b, and the bitboards of one square.
BitBoardsOf(b) ==
    {b.our_pieces, b.their_pieces, b.rooks, b.advisors, b.cannons, b.pawns,
     b.knights, b.bishops}
    \cup {{s} : s \in Squares}

\* The square of rank 9 - r and file f for the square of rank r and file f.
RankFlipped(s) == (9 - (s \div 9)) * 9 + (s % 9)

\* C21: Square::Flip twice gives every square back; MirrorBoard twice gives
\* back every bitboard of the last board of the history and every bitboard
\* of one square, and once it moves each bit to the square of the flipped
\* rank and the same file and sets no bit from 90 on; ChessBoard::Mirror
\* twice gives back the last board, the flipped flag included.
C21_MirrorInvolution ==
    /\ \A s \in Squares :
          /\ SquareFlip(s) = RankFlipped(s)
          /\ SquareFlip(SquareFlip(s)) = s
    /\ \A v \in BitBoardsOf(Last(positions).board) :
          /\ MirrorBoard(v) = {RankFlipped(s) : s \in v}
          /\ MirrorBoard(v) \subseteq Squares
          /\ MirrorBoard(MirrorBoard(v)) = v
    /\ Mirror(Mirror(Last(positions).board)) = Last(positions).board
    /\ Mirror(Last(positions).board).flipped = ~Last(positions).board.flipped

\* A board that Append has mirrored has pieces on the middle rank of a half
\* (which MirrorBoard moves in one step), on the other ranks of both halves,
\* and kings on different files.
C21_Witness ==
    /\ Len(positions) >= 3
    /\ Last(positions).board.flipped
    /\ LET occ == Occupied(Last(positions).board)
       IN  /\ occ \cap (RankBB(2) \cup RankBB(7)) # {}
           /\ occ \cap (RankBB(0) \cup RankBB(1)) # {}
           /\ occ \cap (RankBB(8) \cup RankBB(9)) # {}
    /\ Cardinality(Occupied(Last(positions).board)) >= 4

----------------------------------------------------------------------------
(* C22: for every move of kIdxToMove and every index of the table, under   *)
(* NoTransform and under FlipTransform, as_nn_index and MoveFromNNIndex    *)
(* undo one another: a move converted to its index and back is the move    *)
(* started from, an index converted to its move and back is the index      *)
(* started from.                                                           *)
C22_RoundTrip ==
    \A k \in 3..Len(nn.trail) : nn.trail[k] = nn.trail[k - 2]

\* A move and an index taken there and back under FlipTransform, the move
\* one that the flip changes.
C22_Witness ==
    /\ Len(nn.trail) >= 3
    /\ nn.transform = FlipTransform
    /\ nn.trail[1].is_move
    /\ nn.trail[2].value # kMoveToIdx(nn.trail[1].value)

----------------------------------------------------------------------------
(* C23: HasMatingMaterial is true of every board with a pawn, a rook or a  *)
(* knight of either side, and false of every board on which neither side  *)
(* has a pawn, a rook, a knight or a cannon, whichever side is to move.    *)

\* The board SetFromFen parsed and the same board with the other side to
\* move.
BothSidesToMove(b) == {b, Mirror(b)}

C23_MatingMaterial ==
    (parsed.by # "" /\ parsed.error = "") =>
        \A b \in BothSidesToMove(parsed.board) :
            /\ (b.pawns \cup b.rooks \cup b.knights # {})
                   => HasMatingMaterial(b)
            /\ (b.pawns \cup b.rooks \cup b.knights \cup b.cannons = {})
                   => ~HasMatingMaterial(b)

\* A parsed board with advisors and a bishop and nothing else but the
\* kings, Black to move.
C23_Witness ==
    /\ parsed.by # ""
    /\ parsed.error = ""
    /\ parsed.board.flipped
    /\ parsed.board.advisors # {}
    /\ parsed.board.bishops # {}
    /\ parsed.board.pawns \cup parsed.board.rooks \cup parsed.board.knights
           \cup parsed.board.cannons = {}
    /\ ~HasMatingMaterial(parsed.board)

----------------------------------------------------------------------------
(* C24: in a history built by Reset(board, rule50_ply, game_ply) and       *)
(* Append calls, every position with a repetition count above 0 has a      *)
(* no-progress counter of at least 4, and a last position with repetition  *)
(* count >= 2 and a legal move is terminal: ComputeGameResult returns      *)
(* WHITE_WON, BLACK_WON or DRAW, never UNDECIDED.                          *)
C24_RepeatedIsTerminal ==
    /\ \A i \in 1..Len(positions) :
          positions[i].repetitions > 0 => positions[i].rule50_ply >= 4
    /\ (/\ Last(positions).repetitions >= 2
        /\ GenerateLegalMoves(Last(positions).board) # <<>>)
       => ComputeGameResult(positions) \in {"WHITE_WON", "BLACK_WON", "DRAW"}

\* A last position met for the third time, with a legal move, and judged.
C24_Witness ==
    /\ Last(positions).repetitions >= 2
    /\ GenerateLegalMoves(Last(positions).board) # <<>>
    /\ Last(positions).rule50_ply < 10
    /\ ComputeGameResult(positions) \in {"WHITE_WON", "BLACK_WON", "DRAW"}

----------------------------------------------------------------------------
(* C25: at the verdict of RuleJudge the still-checking flag of a side is   *)
(* on exactly when every move of that side between the first occurrence of *)
(* the repeated board and the last position gave check; one move of that   *)
(* side without check in the window leaves its flag off, whatever it       *)
(* played afterwards.                                                      *)
C25_CheckFlags ==
    Last(positions).repetitions >= 1 =>
        /\ JudgeWalk(positions).found
        /\ JudgeWalk(positions).checkThem = MoverCheckedThroughout
        /\ JudgeWalk(positions).checkUs = OtherCheckedThroughout

\* The side that moved last gave check with its last move and not with an
\* earlier one of the cycle, and its flag is off.
C25_Witness ==
    /\ Last(positions).repetitions >= 1
    /\ IsUnderCheck(Last(positions).board)
    /\ \E k \in MoverPositions :
          /\ k + 2 \in MoverPositions
          /\ ~IsUnderCheck(positions[k].board)
          /\ IsUnderCheck(positions[k + 2].board)
    /\ ~JudgeWalk(positions).checkThem

----------------------------------------------------------------------------
(* Chase detection and the pawns.  The board is seen from the side to      *)
(* move: an opponent pawn stands on its own half, HalfBB[1], until it      *)
(* crosses the river.                                                      *)

\* The id MakeChase reads for the piece on square sq of board b.
IdOn(b, sq) == b.id_board[Unflipped(b, sq)]

\* The opponent pawns of board b that have crossed the river, and those
\* that have not.
CrossedPawns(b) == (b.pawns \cap b.their_pieces) \ HalfBB(1)

UncrossedPawns(b) == (b.pawns \cap b.their_pieces) \cap HalfBB(1)

\* The boards UsChased is asked about: the parsed board and its mirror.
ParsedBoards ==
    IF parsed.by # "" /\ parsed.error = ""
    THEN BothSidesToMove(parsed.board)
    ELSE {}

\* C26: the bitmap UsChased returns holds neither the bit of the enemy
\* king nor the bit of an opponent pawn that has not crossed the river;
\* every bit it holds is that of another enemy piece, an opponent pawn
\* that has crossed the river included.
C26_ChaseExcludesUncrossedPawns ==
    \A b \in ParsedBoards :
        /\ IdOn(b, b.their_king) \notin UsChased(b)
        /\ \A sq \in UncrossedPawns(b) : IdOn(b, sq) \notin UsChased(b)
        /\ \A id \in UsChased(b) :
              \E sq \in b.their_pieces \ ({b.their_king}
                                           \cup UncrossedPawns(b)) :
                  IdOn(b, sq) = id

\* A rook attacks an opponent pawn that crossed the river and one that did
\* not: the first is chased, the second is not.
C26_Witness ==
    \E b \in ParsedBoards :
        \E from \in b.rooks \cap b.our_pieces :
            /\ \E sq \in UncrossedPawns(b) :
                  /\ sq \in GetAttacks(kRook, from, Occupied(b))
                  /\ IdOn(b, sq) \notin UsChased(b)
            /\ \E sq \in CrossedPawns(b) :
                  /\ sq \in GetAttacks(kRook, from, Occupied(b))
                  /\ IdOn(b, sq) \in UsChased(b)

\* C26 as stated: the bitmap never holds the bit of an opponent pawn that
\* has crossed the river.
C26_ChaseExcludesCrossedPawns ==
    \A b \in ParsedBoards :
        \A sq \in CrossedPawns(b) : IdOn(b, sq) \notin UsChased(b)

----------------------------------------------------------------------------
(* The ids of the pieces.                                                  *)

\* The squares of the unflipped board on which board b has a piece of
\* White (of Black) that is not a king.
WhiteSquares(b) ==
    {Unflipped(b, s) :
        s \in IF b.flipped THEN b.their_pieces \ {b.their_king}
                           ELSE b.our_pieces \ {b.our_king}}

BlackSquares(b) ==
    {Unflipped(b, s) :
        s \in IF b.flipped THEN b.our_pieces \ {b.our_king}
                           ELSE b.their_pieces \ {b.their_king}}

RECURSIVE PieceIds(_)
\* The id each non-king piece of positions[k] was given when the start
\* position was parsed, by the square of the unflipped board it stands on:
\* followed from the start position through the moves played.
PieceIds(k) ==
    IF k = 1
    THEN [sq \in WhiteSquares(positions[1].board)
                     \cup BlackSquares(positions[1].board) |->
              positions[1].board.id_board[sq]]
    ELSE LET prev == PieceIds(k - 1)
             b == positions[k - 1].board
             from == Unflipped(b, MoveFrom(moves[k - 1]))
             to == Unflipped(b, MoveTo(moves[k - 1]))
         IN  IF MoveFrom(moves[k - 1]) = b.our_king
             THEN [sq \in DOMAIN prev \ {to} |-> prev[sq]]
             ELSE [sq \in (DOMAIN prev \ {from}) \cup {to} |->
                       IF sq = to THEN prev[from] ELSE prev[sq]]

\* C27: in a history started from SetFromFen with a side token, id_board_
\* holds for every non-king piece still on the board, at its square of the
\* unflipped board, the id the piece was given at parse time, and two
\* non-king pieces of one side never have the same id.
C27_IdsFollowPieces ==
    LET b == Last(positions).board
        ids == PieceIds(Len(positions))
    IN  /\ Len(moves) = Len(positions) - 1
        /\ DOMAIN ids = WhiteSquares(b) \cup BlackSquares(b)
        /\ \A sq \in DOMAIN ids : b.id_board[sq] = ids[sq]
        /\ \A side \in {WhiteSquares(b), BlackSquares(b)} :
              \A s1, s2 \in side :
                  s1 # s2 => b.id_board[s1] # b.id_board[s2]

\* A king has moved, Black has moved a piece that is not a king, a piece
\* that is not a king has captured, and a piece that is not a king is left
\* away from the square it was parsed on.
C27_Witness ==
    /\ \E k \in 1..Len(moves) :
          MoveFrom(moves[k]) = positions[k].board.our_king
    /\ \E k \in 1..Len(moves) :
          /\ MoveFrom(moves[k]) # positions[k].board.our_king
          /\ positions[k].board.flipped
    /\ \E k \in 1..Len(moves) :
          /\ MoveFrom(moves[k]) # positions[k].board.our_king
          /\ MoveTo(moves[k]) \in positions[k].board.their_pieces
    /\ \E sq \in DOMAIN PieceIds(Len(positions)) :
          /\ sq \notin DOMAIN PieceIds(1)
          /\ Last(positions).board.id_board[sq]
                 = PieceIds(Len(positions))[sq]

\* Two non-king pieces of one side, one of them moved and one of the other
\* side's captured, with different ids.
C27_WitnessDistinct ==
    /\ \E k \in 1..Len(moves) :
          /\ MoveFrom(moves[k]) # positions[k].board.our_king
          /\ MoveTo(moves[k]) \in positions[k].board.their_pieces
    /\ \E side \in {WhiteSquares(Last(positions).board),
                     BlackSquares(Last(positions).board)} :
          \E s1, s2 \in side :
              /\ s1 # s2
              /\ Last(positions).board.id_board[s1]
                     # Last(positions).board.id_board[s2]

----------------------------------------------------------------------------
(* The check counters.  In positions[k], k > 1, them_check is the counter  *)
(* of the side that moved into the position and us_check the counter of    *)
(* the side to move.                                                       *)

\* The move into positions[k] captured.
Captured(k) == MoveTo(moves[k - 1]) \in positions[k - 1].board.their_pieces

\* C28: the check counters count checks since the last capture, not runs
\* of checks: without a capture the mover's counter is its earlier value,
\* one more if the move gives check, and is left as it is by a move that
\* gives no check; the other side's counter does not go down; a capture
\* returns both to 0.
C28_CountersKeptWithoutCheck ==
    /\ Len(moves) = Len(positions) - 1
    /\ \A k \in 2..Len(positions) :
          IF Captured(k)
          THEN positions[k].us_check = 0 /\ positions[k].them_check = 0
          ELSE /\ positions[k].them_check
                     = positions[k - 1].us_check
                       + (IF IsUnderCheck(positions[k].board) THEN 1 ELSE 0)
               /\ positions[k].us_check >= positions[k - 1].them_check

\* A side gave check, then moved without giving check and without
\* capturing: its counter is still above 0.
C28_Witness ==
    \E k \in 4..Len(positions) :
        /\ IsUnderCheck(positions[k - 2].board)
        /\ ~Captured(k - 2)
        /\ ~Captured(k - 1)
        /\ ~Captured(k)
        /\ ~IsUnderCheck(positions[k].board)
        /\ positions[k].them_check > 0

\* C28 as stated: the counter of a side is 0 after a move of that side
\* that gives no check.
C28_CounterZeroWithoutCheck ==
    \A k \in 2..Len(positions) :
        ~IsUnderCheck(positions[k].board) => positions[k].them_check = 0

----------------------------------------------------------------------------
(* Repetition and id_board_.                                               *)

\* The earlier positions, an even number of plies (4 or more) back, with
\* the placement of the last position and no capture since.
EarlierPlacements ==
    {i \in 1..Len(positions) - 4 :
        /\ (Len(positions) - i) % 2 = 0
        /\ SamePlacement(positions[i].board, Last(positions).board)
        /\ \A k \in i + 1..Len(positions) : ~Captured(k)}

\* C29: when the appended position has the placement and the side to move
\* of an earlier position an even number (4 or more) of plies back, with no
\* capture in between, Append records a repetition count of 1 or more,
\* whatever id_board_ holds.
C29_RepetitionByPlacement ==
    (Len(moves) = Len(positions) - 1 /\ EarlierPlacements # {})
        => Last(positions).repetitions >= 1

----------------------------------------------------------------------------
(* Checks inside a cycle and the chase bitmaps.                            *)

\* A position of the repeated cycle, from the first occurrence of the
\* board to the last position, is in check.
CheckInCycle ==
    \E k \in CycleStart..Len(positions) : IsUnderCheck(positions[k].board)

====
